---- MODULE Spec2Model ----
(***************************************************************************)
(* Model of the request router and the batch execution engine of           *)
(* UnrealPythonREST (RESTRouter.cpp, InfrastructureHandler.cpp).           *)
(*                                                                         *)
(* FString values are TLA+ strings; a character is a string of length 1.   *)
(* A JSON value (FJsonValue) is a tagged tuple:                            *)
(*   <<"null">>  <<"bool", b>>  <<"num", n>>  <<"str", s>>                 *)
(*   <<"arr", seq>>  <<"obj", o>>   with o a function from keys to values. *)
(* A TSharedPtr<FJsonObject> is either such a function o or NoObject (the  *)
(* pointer for which IsValid() is false); a TSharedPtr<FJsonValue> is a    *)
(* tagged tuple or NoValue (nullptr).                                      *)
(***************************************************************************)
EXTENDS Integers, Sequences, FiniteSets, TLC

VARIABLES
    Routes,         \* FRESTRouter::Routes, route key -> handler
    atoiOverflow,   \* what FCString::Atoi does beyond int32 in this build
    RequestBody,    \* Request.JsonBody of the POST /batch request
    pc,             \* position of HandleBatch: "idle", "loop", "build", "done"
    bStopOnError,   \* HandleBatch local
    RequestsArray,  \* HandleBatch local: AsObject() of each element of "requests"
    Index,          \* HandleBatch loop variable
    Results,        \* HandleBatch local
    Completed,      \* HandleBatch local
    Failed,         \* HandleBatch local
    dispatched,     \* the InternalRequests handed to DispatchInternal, in order
    Response,       \* the FRESTResponse HandleBatch returns
    sValue,         \* ResolveStringVariables argument Value
    sPrevious,      \* ResolveStringVariables argument PreviousResults
    sResult,        \* ResolveStringVariables return value
    sPc,            \* "call" before ResolveStringVariables ran, "ret" after
    eRoot,          \* ExtractJsonPath argument Root
    ePath,          \* ExtractJsonPath argument Path
    eResult,        \* ExtractJsonPath return value
    ePc,            \* "call" before ExtractJsonPath ran, "ret" after
    registered,     \* the RegisterRoute calls made so far, in order
    lastCall,       \* the last request the router served and what it answered
    modulePc,       \* FUnrealPythonRESTModule: "unloaded", "loaded", "shutdown"
    Router,         \* FUnrealPythonRESTModule::Router: "null" or "valid"
    Handlers,       \* FUnrealPythonRESTModule::Handlers
    bIsRunning,     \* FRESTRouter::bIsRunning
    CurrentPort,    \* FRESTRouter::CurrentPort
    RegisteredHandlers, \* FRESTRouter::RegisteredHandlers
    HttpRouter,     \* FRESTRouter::HttpRouter.IsValid()
    RouteHandle,    \* FRESTRouter::RouteHandle.IsValid()
    nCalls,         \* number of calls made on the module and its router
    lastOp,         \* the last such call: what it returned, the Shutdown calls it made
                    \* and the route keys RegisterRoute was called with
    Jobs,           \* FPythonHandler::Jobs: job id -> FPythonJob
    Now,            \* FDateTime::UtcNow(), in hours
    nGuids,         \* number of ids FGuid::NewGuid() has handed out
    nExecuted,      \* number of /python/execute requests that ran their code
    lastReply       \* the last request FPythonHandler served and its response

batchVars == <<RequestBody, pc, bStopOnError, RequestsArray, Index, Results,
               Completed, Failed, dispatched, Response>>
substVars == <<sValue, sPrevious, sResult, sPc>>
extractVars == <<eRoot, ePath, eResult, ePc>>
routerVars == <<registered, lastCall>>
lifeVars == <<modulePc, Router, Handlers, bIsRunning, CurrentPort, RegisteredHandlers,
              HttpRouter, RouteHandle, nCalls, lastOp>>
jobVars == <<Jobs, Now, nGuids, nExecuted, lastReply>>
vars == <<Routes, atoiOverflow, batchVars, substVars, extractVars, routerVars, lifeVars,
          jobVars>>

-----------------------------------------------------------------------------
(* Bounds of the model *)

\* longest "requests" array of a batch
MaxSteps == 3

-----------------------------------------------------------------------------
(* FString and character classes *)

NoObject == <<"invalid">>
NoValue == <<"nullptr">>

Ch(s, i) == SubSeq(s, i, i)

LowerCase == "abcdefghijklmnopqrstuvwxyz"
UpperCase == "ABCDEFGHIJKLMNOPQRSTUVWXYZ"
DigitChars == "0123456789"

\* \d of the pattern
Digit == {Ch(DigitChars, i) : i \in 1..10}
\* \w of the pattern
WordChar == {Ch(LowerCase, i) : i \in 1..26} \cup {Ch(UpperCase, i) : i \in 1..26}
                \cup Digit \cup {"_"}
\* [\w\.] of the pattern
PathChar == WordChar \cup {"."}

DigitValueOf == [c \in Digit |-> (CHOOSE i \in 1..10 : Ch(DigitChars, i) = c) - 1]

DigitValue(c) == DigitValueOf[c]

LowerOf ==
    [c \in {Ch(UpperCase, i) : i \in 1..26} |->
        Ch(LowerCase, CHOOSE i \in 1..26 : Ch(UpperCase, i) = c)]

UpperOf ==
    [c \in {Ch(LowerCase, i) : i \in 1..26} |->
        Ch(UpperCase, CHOOSE i \in 1..26 : Ch(LowerCase, i) = c)]

ToLowerChar(c) == IF c \in DOMAIN LowerOf THEN LowerOf[c] ELSE c

ToUpperChar(c) == IF c \in DOMAIN UpperOf THEN UpperOf[c] ELSE c

RECURSIVE ToLower(_)
ToLower(s) == IF s = "" THEN "" ELSE ToLowerChar(Head(s)) \o ToLower(Tail(s))

\* FString::ToUpper
RECURSIVE ToUpper(_)
ToUpper(s) == IF s = "" THEN "" ELSE ToUpperChar(Head(s)) \o ToUpper(Tail(s))

\* FString::Replace(From, To): every occurrence of From, found left to right
\* without overlap, compared ignoring case (the default SearchCase)
RECURSIVE ReplaceFrom(_, _, _, _)
ReplaceFrom(s, From, To, i) ==
    IF i > Len(s) THEN ""
    ELSE IF /\ i + Len(From) - 1 <= Len(s)
            /\ ToLower(SubSeq(s, i, i + Len(From) - 1)) = ToLower(From)
         THEN To \o ReplaceFrom(s, From, To, i + Len(From))
         ELSE Ch(s, i) \o ReplaceFrom(s, From, To, i + 1)

Replace(s, From, To) == IF From = "" THEN s ELSE ReplaceFrom(s, From, To, 1)

\* FString::ParseIntoArray(Parts, "."): the non-empty pieces between dots
RECURSIVE ParseIntoArrayFrom(_, _, _)
ParseIntoArrayFrom(s, i, piece) ==
    IF i > Len(s) THEN (IF piece = "" THEN <<>> ELSE <<piece>>)
    ELSE IF Ch(s, i) = "."
         THEN (IF piece = "" THEN <<>> ELSE <<piece>>) \o ParseIntoArrayFrom(s, i + 1, "")
         ELSE ParseIntoArrayFrom(s, i + 1, piece \o Ch(s, i))

ParseIntoArray(s) == ParseIntoArrayFrom(s, 1, "")

\* decimal digits of a natural number
RECURSIVE NatToString(_)
NatToString(n) ==
    IF n < 10 THEN Ch(DigitChars, n + 1)
    ELSE NatToString(n \div 10) \o Ch(DigitChars, (n % 10) + 1)

RECURSIVE Pow10(_)
Pow10(k) == IF k = 0 THEN 1 ELSE 10 * Pow10(k - 1)

RECURSIVE StripTrailingZeros(_)
StripTrailingZeros(s) ==
    IF s /= "" /\ Ch(s, Len(s)) = "0" THEN StripTrailingZeros(SubSeq(s, 1, Len(s) - 1))
    ELSE s

\* FString::Printf("%g", x) for a natural x: six significant digits, the
\* exponent form from 1e+06 on, trailing zeros removed
PrintfG_Nat(n) ==
    LET digits == NatToString(n)
        L == Len(digits)
    IN  IF L <= 6 THEN digits
        ELSE LET unit == Pow10(L - 6)
                 m0 == n \div unit
                 r == n % unit
                 up == (2 * r > unit) \/ (2 * r = unit /\ m0 % 2 = 1)
                 m1 == IF up THEN m0 + 1 ELSE m0
                 carry == m1 = 1000000
                 m == IF carry THEN 100000 ELSE m1
                 X == IF carry THEN L ELSE L - 1
                 md == NatToString(m)
                 frac == StripTrailingZeros(SubSeq(md, 2, 6))
                 xs == NatToString(X)
             IN  Ch(md, 1) \o (IF frac = "" THEN "" ELSE "." \o frac)
                    \o "e+" \o (IF Len(xs) < 2 THEN "0" \o xs ELSE xs)

PrintfG(x) == IF x < 0 THEN "-" \o PrintfG_Nat(0 - x) ELSE PrintfG_Nat(x)

-----------------------------------------------------------------------------
(* FRegexMatcher over the pattern  \$(\d+)(\.([\w\.]+))?  *)

\* index of the last character of the longest run of characters of class
\* that starts at i (i - 1 when there is none)
RECURSIVE RunEnd(_, _, _)
RunEnd(s, i, class) ==
    IF i <= Len(s) /\ Ch(s, i) \in class THEN RunEnd(s, i + 1, class) ELSE i - 1

\* whether a match of the pattern begins at position p
MatchesAt(s, p) == p + 1 <= Len(s) /\ Ch(s, p) = "$" /\ Ch(s, p + 1) \in Digit

\* the match that begins at p: \d+ is greedy, the optional group is taken
\* whenever a dot and one path character follow the digits
MatchAt(s, p) ==
    LET de == RunEnd(s, p + 1, Digit)
        hasPath == de + 2 <= Len(s) /\ Ch(s, de + 1) = "." /\ Ch(s, de + 2) \in PathChar
        pe == IF hasPath THEN RunEnd(s, de + 2, PathChar) ELSE de
    IN  [found  |-> TRUE,
         begin  |-> p,
         end    |-> pe,
         group0 |-> SubSeq(s, p, pe),
         group1 |-> SubSeq(s, p + 1, de),
         group3 |-> IF hasPath THEN SubSeq(s, de + 2, pe) ELSE ""]

NoMatch == [found |-> FALSE, begin |-> 0, end |-> 0, group0 |-> "", group1 |-> "", group3 |-> ""]

\* Matcher.FindNext(): the leftmost match at or after position from
RECURSIVE FindNext(_, _)
FindNext(s, from) ==
    IF from > Len(s) THEN NoMatch
    ELSE IF MatchesAt(s, from) THEN MatchAt(s, from)
    ELSE FindNext(s, from + 1)

-----------------------------------------------------------------------------
(* FCString::Atoi into an int32 *)

\* The decimal value of a digit string, kept modulo 2^32 in two 16-bit
\* halves, with a flag telling whether the value left the int32 range.
RECURSIVE AtoiAcc(_, _, _, _)
AtoiAcc(s, hi, lo, big) ==
    IF s = "" THEN [hi |-> hi, lo |-> lo, big |-> big]
    ELSE LET l == lo * 10 + DigitValue(Head(s))
             h == hi * 10 + (l \div 65536)
         IN  AtoiAcc(Tail(s), h % 65536, l % 65536, big \/ h >= 32768)

\* Atoi has the semantics of C atoi: a value outside int32 is not defined by
\* the language.  The builds of the engine either saturate at INT_MAX
\* ("saturate") or keep the low 32 bits of the wider strtol result
\* ("truncate"); atoiOverflow says which build runs.
Atoi(s) ==
    LET a == AtoiAcc(s, 0, 0, FALSE)
    IN  IF ~a.big THEN a.hi * 65536 + a.lo
        ELSE IF atoiOverflow = "saturate" THEN 32767 * 65536 + 65535
        ELSE IF a.hi >= 32768 THEN (a.hi - 65536) * 65536 + a.lo
        ELSE a.hi * 65536 + a.lo

-----------------------------------------------------------------------------
(* FJsonObject accessors *)

Type(v) == v[1]

IsValid(ptr) == Type(ptr) \notin {"invalid", "nullptr"}

\* the TSharedPtr<FJsonObject> to an object with the given fields
Obj(fields) == <<"obj", fields>>

EmptyObject == Obj([k \in {} |-> NoValue])

Fields(ptr) == ptr[2]

HasField(ptr, key) == key \in DOMAIN Fields(ptr)

\* FJsonObject::TryGetField of a field that exists
Field(ptr, key) == Fields(ptr)[key]

\* AsObject answering a value that is not an object with an empty object
\* in place of a pointer that is not valid
AsObject_EmptyForOthers(v) == IF Type(v) = "obj" THEN v ELSE <<"obj", [k \in {} |-> <<"nullptr">>]>>

\* FJsonValue::AsObject as HandleBatch and ExtractJsonPath use it: the
\* object of an object value; for any other value a pointer that the
\* caller's IsValid() test rejects
AsObject(v) == IF Type(v) = "obj" THEN v ELSE NoObject

\* FJsonObject::GetObjectField of a field that exists
GetObjectField(ptr, key) == AsObject(Field(ptr, key))

\* FJsonObject::GetStringField: the string, or "" when the field is missing
GetStringField(ptr, key) ==
    IF HasField(ptr, key) /\ Type(Field(ptr, key)) = "str" THEN Field(ptr, key)[2] ELSE ""

-----------------------------------------------------------------------------
(* FInfrastructureHandler::ExtractJsonPath *)

\* ExtractWalk with the loop running over the last part as well
RECURSIVE ExtractWalk_WalksLast(_, _, _)
ExtractWalk_WalksLast(Current, Parts, i) ==
    IF i <= Len(Parts)
    THEN IF ~IsValid(Current) \/ ~HasField(Current, Parts[i]) THEN NoValue
         ELSE ExtractWalk_WalksLast(GetObjectField(Current, Parts[i]), Parts, i + 1)
    ELSE IF Len(Parts) > 0 /\ IsValid(Current) /\ HasField(Current, Parts[Len(Parts)])
         THEN Field(Current, Parts[Len(Parts)])
         ELSE NoValue

RECURSIVE ExtractWalk(_, _, _)
ExtractWalk(Current, Parts, i) ==
    IF i < Len(Parts)
    THEN IF ~IsValid(Current) \/ ~HasField(Current, Parts[i]) THEN NoValue
         ELSE ExtractWalk(GetObjectField(Current, Parts[i]), Parts, i + 1)
    ELSE IF Len(Parts) > 0 /\ IsValid(Current) /\ HasField(Current, Parts[Len(Parts)])
         THEN Field(Current, Parts[Len(Parts)])
         ELSE NoValue

ExtractJsonPath(Root, Path) == ExtractWalk(Root, ParseIntoArray(Path), 1)

-----------------------------------------------------------------------------
(* FInfrastructureHandler::ResolveStringVariables *)

\* ResolveMatch without the test of the extracted value's type: a bool is
\* put in as "true" or "false", any other value as an empty string
ResolveMatch_AnyType(m, PreviousResults, Result) ==
    LET FullMatch == m.group0
        Idx == Atoi(m.group1)
        JsonPath == m.group3
    IN  IF Idx >= 0 /\ Idx < Len(PreviousResults)
        THEN LET ResultData == PreviousResults[Idx + 1]
             IN  IF ~IsValid(ResultData) THEN Result
                 ELSE IF JsonPath = "" THEN Result
                 ELSE LET Extracted == ExtractJsonPath(ResultData, JsonPath)
                      IN  IF ~IsValid(Extracted) THEN Result
                          ELSE IF Type(Extracted) = "str"
                          THEN Replace(Result, FullMatch, Extracted[2])
                          ELSE IF Type(Extracted) = "num"
                          THEN Replace(Result, FullMatch, PrintfG(Extracted[2]))
                          ELSE IF Type(Extracted) = "bool"
                          THEN Replace(Result, FullMatch,
                                       IF Extracted[2] THEN "true" ELSE "false")
                          ELSE Replace(Result, FullMatch, "")
        ELSE Result

\* one iteration of the while loop: the effect of match m on Result
ResolveMatch(m, PreviousResults, Result) ==
    LET FullMatch == m.group0
        Idx == Atoi(m.group1)
        JsonPath == m.group3
    IN  IF Idx >= 0 /\ Idx < Len(PreviousResults)
        THEN LET ResultData == PreviousResults[Idx + 1]
             IN  IF ~IsValid(ResultData) THEN Result
                 ELSE IF JsonPath = "" THEN Result
                 ELSE LET Extracted == ExtractJsonPath(ResultData, JsonPath)
                      IN  IF IsValid(Extracted) /\ Type(Extracted) = "str"
                          THEN Replace(Result, FullMatch, Extracted[2])
                          ELSE IF IsValid(Extracted) /\ Type(Extracted) = "num"
                          THEN Replace(Result, FullMatch, PrintfG(Extracted[2]))
                          ELSE Result
        ELSE Result

\* the while loop: the matcher scans Value, the replacements go to Result
RECURSIVE ResolveLoop(_, _, _, _)
ResolveLoop(Value, PreviousResults, from, Result) ==
    LET m == FindNext(Value, from)
    IN  IF ~m.found THEN Result
        ELSE ResolveLoop(Value, PreviousResults, m.end + 1,
                         ResolveMatch(m, PreviousResults, Result))

ResolveStringVariables(Value, PreviousResults) ==
    ResolveLoop(Value, PreviousResults, 1, Value)

-----------------------------------------------------------------------------
(* FInfrastructureHandler::ResolveVariableReferences *)

\* ResolveVariableReferences going into arrays as well: the strings inside
\* an array are resolved like the string fields
RECURSIVE ResolveValue_ArraysToo(_, _)
ResolveValue_ArraysToo(v, PreviousResults) ==
    IF Type(v) = "str" THEN <<"str", ResolveStringVariables(v[2], PreviousResults)>>
    ELSE IF Type(v) = "obj"
    THEN Obj([k \in DOMAIN Fields(v) |-> ResolveValue_ArraysToo(Field(v, k), PreviousResults)])
    ELSE IF Type(v) = "arr"
    THEN <<"arr", [i \in DOMAIN v[2] |-> ResolveValue_ArraysToo(v[2][i], PreviousResults)]>>
    ELSE v

ResolveVariableReferences_ArraysToo(Body, PreviousResults) ==
    IF ~IsValid(Body) THEN Body ELSE ResolveValue_ArraysToo(Body, PreviousResults)

RECURSIVE ResolveVariableReferences(_, _)
ResolveVariableReferences(Body, PreviousResults) ==
    IF ~IsValid(Body) THEN Body
    ELSE Obj([k \in DOMAIN Fields(Body) |->
            IF Type(Field(Body, k)) = "str"
            THEN <<"str", ResolveStringVariables(Field(Body, k)[2], PreviousResults)>>
            ELSE IF Type(Field(Body, k)) = "obj"
            THEN ResolveVariableReferences(Field(Body, k), PreviousResults)
            ELSE Field(Body, k)])

-----------------------------------------------------------------------------
(* FRESTResponse *)

NoResponse == [StatusCode |-> 0, JsonBody |-> NoObject]

\* FRESTResponse::Ok
Ok(Json) == [StatusCode |-> 200, JsonBody |-> Json]

\* FRESTResponse::Error
Error(Code, ErrorCode, Message) ==
    [StatusCode |-> Code,
     JsonBody |-> Obj([success |-> <<"bool", FALSE>>,
                       error   |-> <<"str", ErrorCode>>,
                       message |-> <<"str", Message>>])]

NotFound(Message) == Error(404, "NOT_FOUND", Message)
BadRequest(Message) == Error(400, "BAD_REQUEST", Message)
ServerError(Message) == Error(500, "SERVER_ERROR", Message)

-----------------------------------------------------------------------------
(* Route handlers *)

\* FInfrastructureHandler::HandleHealth (engine version and project name are
\* values of the host, fixed here)
HandleHealth(Request) ==
    Ok(Obj([healthy |-> <<"bool", TRUE>>,
            status  |-> <<"str", "running">>,
            server  |-> Obj([name |-> <<"str", "UnrealPythonREST">>,
                             version |-> <<"str", "2.0.0">>]),
            engine  |-> Obj([version |-> <<"str", "5.3.2">>,
                             project |-> <<"str", "Demo">>]),
            units   |-> Obj([distance |-> <<"str", "centimeters">>,
                             rotation |-> <<"str", "degrees">>,
                             scale |-> <<"str", "multiplier (1.0 = normal)">>]),
            coordinate_system |->
                       Obj([handedness |-> <<"str", "left-handed">>,
                            x |-> <<"str", "forward (red)">>,
                            y |-> <<"str", "right (green)">>,
                            z |-> <<"str", "up (blue)">>])]))

\* The domain handlers are functions from a request to a response that the
\* router treats as opaque.  These stand for them: one returns an object
\* with an id, one rejects its input, two return a bare status.
HandlerNames == {"Health", "Create", "Reject", "Accepted", "Redirect"}

\* a bound delegate (FRESTRouteHandler::CreateRaw) and a default-constructed one
Bound(fn) == [bound |-> TRUE, fn |-> fn]
Unbound == [bound |-> FALSE, fn |-> ""]

\* FRESTRouteHandler::Execute
Execute(Handler, Request) ==
    CASE Handler.fn = "Health"   -> HandleHealth(Request)
      [] Handler.fn = "Create"   -> Ok(Obj([id |-> <<"str", "abc">>, count |-> <<"num", 5>>]))
      [] Handler.fn = "Reject"   -> BadRequest("Missing required field: name")
      [] Handler.fn = "Accepted" -> [StatusCode |-> 299, JsonBody |-> NoObject]
      [] Handler.fn = "Redirect" -> [StatusCode |-> 300, JsonBody |-> NoObject]

-----------------------------------------------------------------------------
(* FRESTRouter *)

Methods == {"GET", "POST", "PUT", "DELETE"}

\* the switch over ERESTMethod
MethodString(Method) ==
    CASE Method = "GET" -> "GET"
      [] Method = "POST" -> "POST"
      [] Method = "PUT" -> "PUT"
      [] Method = "DELETE" -> "DELETE"

RouteKey(Method, Path) == MethodString(Method) \o ":" \o Path

\* Routes is a TMap<FString, FRESTRouteHandler>.  The map compares and hashes
\* its keys with FString::operator== and GetTypeHash(FString), which ignore
\* the case of letters, so it holds one pair per key up to case: it is kept
\* here as a function from the key in lower case to the handler.
KeyOf(key) == ToLower(key)

\* what TMap::Find returns for a key the map does not hold
NoHandler == [bound |-> FALSE, fn |-> "nullptr"]

\* TMap::Find
Find(routes, key) ==
    LET k == KeyOf(key) IN IF k \in DOMAIN routes THEN routes[k] ELSE NoHandler

\* TMap::Add: the pair takes the place of the pair with an equal key
Add(routes, key, value) ==
    [k \in DOMAIN routes \cup {KeyOf(key)} |-> IF k = KeyOf(key) THEN value ELSE routes[k]]

\* FRESTRouter::RegisterRoute: Routes.Add(RouteKey, Handler)
RegisterRoute(routes, Method, Path, Handler) == Add(routes, RouteKey(Method, Path), Handler)

NoRoutes == [k \in {} |-> Unbound]

\* the routes the handlers register at module startup
RECURSIVE RegisterAll(_, _)
RegisterAll(routes, regs) ==
    IF regs = <<>> THEN routes
    ELSE RegisterAll(RegisterRoute(routes, regs[1][1], regs[1][2], regs[1][3]), Tail(regs))

StartupRoutes ==
    RegisterAll(NoRoutes,
        << <<"GET", "/health", Bound("Health")>>,
           <<"POST", "/create", Bound("Create")>>,
           <<"POST", "/reject", Bound("Reject")>>,
           <<"PUT", "/accepted", Bound("Accepted")>>,
           <<"GET", "/redirect", Bound("Redirect")>>,
           <<"DELETE", "/unbound", Unbound>> >>)

\* FRESTRouter::DispatchInternal
DispatchInternal(Request) ==
    LET Key == RouteKey(Request.Method, Request.Path)
        Handler == Find(Routes, Key)
    IN  IF Handler = NoHandler
        THEN NotFound("Route not found: " \o Key)
        ELSE IF ~Handler.bound
        THEN ServerError("Route handler not bound")
        ELSE Execute(Handler, Request)

\* the handler the router executes for the request, "" when it executes none
ExecutedHandler(Request) ==
    LET Handler == Find(Routes, RouteKey(Request.Method, Request.Path))
    IN  IF Handler.bound THEN Handler.fn ELSE ""

-----------------------------------------------------------------------------
(* FRESTRouter::HandleRequest, the entry point the HTTP server calls *)

\* FString::StartsWith (default ESearchCase::IgnoreCase)
StartsWith(s, Prefix) ==
    Len(s) >= Len(Prefix) /\ ToLower(SubSeq(s, 1, Len(Prefix))) = ToLower(Prefix)

\* FString::RightChop
RightChop(s, Count) == SubSeq(s, Count + 1, Len(s))

ApiPrefix == "/api/v1"

\* ParsePath without the step "Ensure path starts with /"
ParsePath_SlashNotEnsured(FullPath) ==
    LET chopped == IF Len(FullPath) >= 7 /\ SubSeq(FullPath, 1, 7) = "/api/v1"
                   THEN SubSeq(FullPath, 8, Len(FullPath)) ELSE FullPath
    IN  IF chopped = "" THEN "/" ELSE chopped

\* "Extract path and remove /api/v1 prefix" up to "default to root"
ParsePath(FullPath) ==
    LET chopped == IF StartsWith(FullPath, ApiPrefix)
                   THEN RightChop(FullPath, Len(ApiPrefix)) ELSE FullPath
        slashed == IF ~StartsWith(chopped, "/") THEN "/" \o chopped ELSE chopped
    IN  IF slashed = "" THEN "/" ELSE slashed

\* "Parse HTTP method": GET for a verb that is none of the four
ParseVerb(Verb) ==
    IF Verb = "GET" THEN "GET"
    ELSE IF Verb = "POST" THEN "POST"
    ELSE IF Verb = "PUT" THEN "PUT"
    ELSE IF Verb = "DELETE" THEN "DELETE"
    ELSE "GET"

\* The bytes of a request body are <<"bytes", text, json>>: the text they
\* hold and the object FJsonSerializer::Deserialize reads from it (NoObject
\* when the text is not a JSON object).
NoBytes == <<"bytes", "", NoObject>>

\* FRESTRouter::ParseRequest
ParseRequest(HttpRequest) ==
    [Method      |-> ParseVerb(HttpRequest.Verb),
     Path        |-> ParsePath(HttpRequest.RelativePath),
     QueryParams |-> HttpRequest.QueryParams,
     Body        |-> HttpRequest.Body[2],
     JsonBody    |-> IF Len(HttpRequest.Body[2]) > 0 /\ IsValid(HttpRequest.Body[3])
                     THEN HttpRequest.Body[3] ELSE NoObject]

\* the text FJsonSerializer::Serialize writes for an object
Serialize(Json) == <<"json", Json>>

\* FRESTResponse::RawBody, empty unless a handler sets it
RawBody(Resp) == IF "RawBody" \in DOMAIN Resp THEN Resp.RawBody ELSE ""

\* the status FHttpServerResponse::Create gives a response
HttpOk == 200

\* FRESTRouter::BuildResponse: the body is serialized, the status code of
\* the FRESTResponse is not copied
BuildResponse(Resp) ==
    [Code |-> HttpOk,
     ContentType |-> "application/json",
     Body |-> IF IsValid(Resp.JsonBody) THEN Serialize(Resp.JsonBody)
              ELSE IF RawBody(Resp) /= "" THEN <<"raw", RawBody(Resp)>>
              ELSE <<"raw", "{}">>]

\* the FRESTResponse HandleRequest builds for the parsed request
HandleRequestResponse(ParsedRequest) ==
    LET Key == RouteKey(ParsedRequest.Method, ParsedRequest.Path)
        Handler == Find(Routes, Key)
    IN  IF Handler /= NoHandler
        THEN IF Handler.bound
             THEN Execute(Handler, ParsedRequest)
             ELSE ServerError("Route handler not bound")
        ELSE NotFound("No handler for " \o Key)

\* FRESTRouter::HandleRequest: what it parsed, the handler it executed, the
\* response it built and the HTTP response it passed to OnComplete
HandleRequest(HttpRequest) ==
    LET ParsedRequest == ParseRequest(HttpRequest)
        Resp == HandleRequestResponse(ParsedRequest)
    IN  [kind     |-> "public",
         raw      |-> HttpRequest,
         request  |-> ParsedRequest,
         invoked  |-> ExecutedHandler(ParsedRequest),
         response |-> Resp,
         http     |-> BuildResponse(Resp)]

-----------------------------------------------------------------------------
(* FInfrastructureHandler::HandleBatch *)

\* "Parse method": GET unless the upper-cased string names another method
ParseMethod(MethodStr) ==
    IF MethodStr = "POST" THEN "POST"
    ELSE IF MethodStr = "PUT" THEN "PUT"
    ELSE IF MethodStr = "DELETE" THEN "DELETE"
    ELSE "GET"

\* IsSuccess with the upper limit included
IsSuccess_Through300(StatusCode) == StatusCode >= 200 /\ StatusCode <= 300

\* StatusCode >= 200 && StatusCode < 300
IsSuccess(StatusCode) == StatusCode >= 200 /\ StatusCode < 300

\* ErrorResult numbering the steps from 1
ErrorResult_IndexFromOne(Idx) ==
    Obj([index   |-> <<"num", Idx + 1>>,
         success |-> <<"bool", FALSE>>,
         error   |-> <<"str", "Invalid request object">>])

\* the result recorded for a step that is not an object
ErrorResult(Idx) ==
    Obj([index   |-> <<"num", Idx>>,
         success |-> <<"bool", FALSE>>,
         error   |-> <<"str", "Invalid request object">>])

\* "Build internal request", the body resolved against the results so far
InternalRequest(ReqObj, PreviousResults) ==
    [Method   |-> ParseMethod(ToUpper(GetStringField(ReqObj, "method"))),
     Path     |-> GetStringField(ReqObj, "path"),
     JsonBody |-> IF HasField(ReqObj, "body")
                  THEN ResolveVariableReferences(GetObjectField(ReqObj, "body"),
                                                 PreviousResults)
                  ELSE NoObject]

\* "Build result"
StepResult(Idx, ReqObj, InternalResponse) ==
    LET base == [index   |-> <<"num", Idx>>,
                 method  |-> <<"str", ToUpper(GetStringField(ReqObj, "method"))>>,
                 path    |-> <<"str", GetStringField(ReqObj, "path")>>,
                 status  |-> <<"num", InternalResponse.StatusCode>>,
                 success |-> <<"bool", IsSuccess(InternalResponse.StatusCode)>>]
    IN  IF IsValid(InternalResponse.JsonBody)
        THEN Obj(base @@ [data |-> InternalResponse.JsonBody])
        ELSE Obj(base)

\* StopOnError with the default forgotten: false unless the request sets it
StopOnError_DefaultFalse(Body) ==
    /\ HasField(Body, "options")
    /\ IsValid(GetObjectField(Body, "options"))
    /\ HasField(GetObjectField(Body, "options"), "stop_on_error")
    /\ Field(GetObjectField(Body, "options"), "stop_on_error") = <<"bool", TRUE>>

\* StopOnError with the option never read
StopOnError_AlwaysTrue(Body) == TRUE

\* "Get options"
StopOnError(Body) ==
    IF HasField(Body, "options")
    THEN LET Options == GetObjectField(Body, "options")
         IN  IF IsValid(Options) /\ HasField(Options, "stop_on_error")
             THEN Field(Options, "stop_on_error") = <<"bool", TRUE>>
             ELSE TRUE
    ELSE TRUE

\* TryGetArrayField("requests")
HasRequests(Body) ==
    IsValid(Body) /\ HasField(Body, "requests") /\ Type(Field(Body, "requests")) = "arr"

\* entry of HandleBatch up to the loop: the 400 for a body without a
\* "requests" array, otherwise the options and the empty locals
BatchStart ==
    /\ pc = "idle"
    /\ IF ~HasRequests(RequestBody)
       THEN /\ Response' = BadRequest("Missing required field: requests (array)")
            /\ pc' = "done"
            /\ UNCHANGED <<bStopOnError, RequestsArray, Index, Results, Completed, Failed>>
       ELSE /\ RequestsArray' = Field(RequestBody, "requests")[2]
            /\ bStopOnError' = StopOnError(RequestBody)
            /\ Results' = <<>>
            /\ Completed' = 0
            /\ Failed' = 0
            /\ Index' = 0
            /\ pc' = "loop"
            /\ UNCHANGED Response
    /\ UNCHANGED <<Routes, atoiOverflow, RequestBody, dispatched, substVars, extractVars, routerVars, lifeVars, jobVars>>

\* one iteration of the loop over RequestsArray; a break leaves Index as it
\* is and goes to "build"
BatchStep ==
    /\ pc = "loop"
    /\ Index < Len(RequestsArray)
    /\ \E ReqObj \in {AsObject(RequestsArray[Index + 1])} :
           IF ~IsValid(ReqObj)
           THEN /\ Results' = Append(Results, ErrorResult(Index))
                /\ Failed' = Failed + 1
                /\ IF bStopOnError
                   THEN pc' = "build" /\ Index' = Index
                   ELSE pc' = "loop" /\ Index' = Index + 1
                /\ UNCHANGED <<Completed, dispatched>>
           ELSE \E Req \in {InternalRequest(ReqObj, Results)} :
                \E InternalResponse \in {DispatchInternal(Req)} :
                    /\ dispatched' = Append(dispatched,
                            [step |-> Index, recorded |-> Len(Results), request |-> Req,
                             response |-> InternalResponse])
                    /\ Results' = Append(Results, StepResult(Index, ReqObj, InternalResponse))
                    /\ IF IsSuccess(InternalResponse.StatusCode)
                       THEN /\ Completed' = Completed + 1
                            /\ Failed' = Failed
                            /\ pc' = "loop" /\ Index' = Index + 1
                       ELSE /\ Failed' = Failed + 1
                            /\ Completed' = Completed
                            /\ IF bStopOnError
                               THEN pc' = "build" /\ Index' = Index
                               ELSE pc' = "loop" /\ Index' = Index + 1
    /\ UNCHANGED <<Routes, atoiOverflow, RequestBody, bStopOnError, RequestsArray,
                   Response, substVars, extractVars, routerVars, lifeVars, jobVars>>

\* BatchBuild answering 500 when a step failed
BatchBuild_FailsWithSteps ==
    /\ \/ pc = "build"
       \/ pc = "loop" /\ Index >= Len(RequestsArray)
    /\ Response' = [StatusCode |-> IF Failed = 0 THEN 200 ELSE 500,
                    JsonBody |-> Obj([success   |-> <<"bool", Failed = 0>>,
                                      results   |-> <<"arr", Results>>,
                                      completed |-> <<"num", Completed>>,
                                      failed    |-> <<"num", Failed>>])]
    /\ pc' = "done"
    /\ UNCHANGED <<Routes, atoiOverflow, RequestBody, bStopOnError, RequestsArray, Index,
                   Results, Completed, Failed, dispatched, substVars, extractVars, routerVars, lifeVars, jobVars>>

\* BatchBuild building the response without returning it
BatchBuild_NeverReturns ==
    /\ \/ pc = "build"
       \/ pc = "loop" /\ Index >= Len(RequestsArray)
    /\ Response' = Ok(Obj([success   |-> <<"bool", Failed = 0>>,
                           results   |-> <<"arr", Results>>,
                           completed |-> <<"num", Completed>>,
                           failed    |-> <<"num", Failed>>]))
    /\ pc' = "build"
    /\ UNCHANGED <<Routes, atoiOverflow, RequestBody, bStopOnError, RequestsArray, Index,
                   Results, Completed, Failed, dispatched, substVars, extractVars, routerVars, lifeVars, jobVars>>

\* BatchBuild reporting success whenever a step completed
BatchBuild_SuccessIfAnyCompleted ==
    /\ \/ pc = "build"
       \/ pc = "loop" /\ Index >= Len(RequestsArray)
    /\ Response' = Ok(Obj([success   |-> <<"bool", Completed > 0>>,
                           results   |-> <<"arr", Results>>,
                           completed |-> <<"num", Completed>>,
                           failed    |-> <<"num", Failed>>]))
    /\ pc' = "done"
    /\ UNCHANGED <<Routes, atoiOverflow, RequestBody, bStopOnError, RequestsArray, Index,
                   Results, Completed, Failed, dispatched, substVars, extractVars, routerVars, lifeVars, jobVars>>

\* "Build response", after the loop ended or was left by break
BatchBuild ==
    /\ \/ pc = "build"
       \/ pc = "loop" /\ Index >= Len(RequestsArray)
    /\ Response' = Ok(Obj([success   |-> <<"bool", Failed = 0>>,
                           results   |-> <<"arr", Results>>,
                           completed |-> <<"num", Completed>>,
                           failed    |-> <<"num", Failed>>]))
    /\ pc' = "done"
    /\ UNCHANGED <<Routes, atoiOverflow, RequestBody, bStopOnError, RequestsArray, Index,
                   Results, Completed, Failed, dispatched, substVars, extractVars, routerVars, lifeVars, jobVars>>

-----------------------------------------------------------------------------
(* The batch requests the runs are started with *)

Step(method, path) == Obj([method |-> <<"str", method>>, path |-> <<"str", path>>])

StepWithBody(method, path, body) ==
    Obj([method |-> <<"str", method>>, path |-> <<"str", path>>, body |-> body])

StepSpecs ==
    { <<"num", 7>>,
      Step("GET", "/health"),
      StepWithBody("POST", "/create", Obj([ref |-> <<"str", "$0.id">>])),
      StepWithBody("post", "/create",
                   Obj([ref  |-> <<"str", "$0.data.id">>,
                        more |-> Obj([n |-> <<"str", "item-$1.data.count/$1.status">>,
                                      keep |-> <<"num", 7>>,
                                      list |-> <<"arr", << <<"str", "$0.data.id">>,
                                                           <<"num", 1>> >> >>,
                                      on   |-> <<"bool", TRUE>>,
                                      nil  |-> <<"null">>])])),
      StepWithBody("POST", "/reject",
                   Obj([a |-> <<"str", "$5.name $4294967296.data.id $4294967297.data.id">>])),
      Step("GET", "nope"),
      Step("patch", "/health"),
      Step("PUT", "/accepted"),
      Step("GET", "/redirect") }

StepLists == UNION {[1..n -> StepSpecs] : n \in 0..MaxSteps}

OptionVariants ==
    { [k \in {} |-> NoValue],
      [options |-> EmptyObject],
      [options |-> Obj([stop_on_error |-> <<"bool", TRUE>>])],
      [options |-> Obj([stop_on_error |-> <<"bool", FALSE>>])] }

BatchBodies ==
    {NoObject, Obj([options |-> EmptyObject]), Obj([requests |-> <<"str", "all">>])}
        \cup {Obj([requests |-> <<"arr", steps>>] @@ opt) : steps \in StepLists, opt \in OptionVariants}

AtoiBuilds == {"saturate", "truncate"}

SubstIdle ==
    /\ sValue = ""
    /\ sPrevious = <<>>
    /\ sResult = ""
    /\ sPc = "off"

ExtractIdle ==
    /\ eRoot = NoObject
    /\ ePath = ""
    /\ eResult = NoValue
    /\ ePc = "off"

NoHttpRequest == [Verb |-> "", RelativePath |-> "", QueryParams |-> <<>>, Body |-> NoBytes]

NoHttpResponse == [Code |-> 0, ContentType |-> "", Body |-> <<"raw", "">>]

NoRequest == [Method |-> "GET", Path |-> "", JsonBody |-> NoObject]

\* no request served yet
NoCall ==
    [kind |-> "none", raw |-> NoHttpRequest, request |-> NoRequest, invoked |-> "",
     response |-> NoResponse, http |-> NoHttpResponse]

RouterIdle ==
    /\ registered = <<>>
    /\ lastCall = NoCall

\* no call made on the module yet; the router's fields as its constructor
\* leaves them
NoOp == [op |-> "none", ret |-> FALSE, shutdowns |-> <<>>, registers |-> {}]

LifeIdle ==
    /\ modulePc = "unloaded"
    /\ Router = "null"
    /\ Handlers = <<>>
    /\ bIsRunning = FALSE
    /\ CurrentPort = 0
    /\ RegisteredHandlers = <<>>
    /\ HttpRouter = FALSE
    /\ RouteHandle = FALSE
    /\ nCalls = 0
    /\ lastOp = NoOp

\* FPythonHandler after construction: no job stored, no request served
NoJobs == [id \in {} |-> NoValue]

NoReply == [op |-> "none", JobId |-> "", StatusCode |-> 0, error |-> "", job |-> NoValue]

JobsIdle ==
    /\ Jobs = NoJobs
    /\ Now = 0
    /\ nGuids = 0
    /\ nExecuted = 0
    /\ lastReply = NoReply

\* FPythonHandler::Shutdown, run by the loops that shut the handlers down
JobsAfterShutdowns(shutdowns) ==
    IF "python" \in DOMAIN shutdowns THEN NoJobs ELSE Jobs

BatchIdle ==
    /\ bStopOnError = TRUE
    /\ RequestsArray = <<>>
    /\ Index = 0
    /\ Results = <<>>
    /\ Completed = 0
    /\ Failed = 0
    /\ dispatched = <<>>
    /\ Response = NoResponse

Init ==
    /\ Routes = StartupRoutes
    /\ atoiOverflow \in AtoiBuilds
    /\ RequestBody \in BatchBodies
    /\ pc = "idle"
    /\ BatchIdle
    /\ SubstIdle
    /\ ExtractIdle
    /\ RouterIdle
    /\ LifeIdle
    /\ JobsIdle

Next == BatchStart \/ BatchStep \/ BatchBuild

Spec == Init /\ [][Next]_vars

\* the steps the loop treats differently: one that is not an object, one the
\* router answers with 200, one it answers with 404
PlainSteps == {<<"num", 7>>, Step("GET", "/health"), Step("GET", "nope")}

PlainBodies ==
    {NoObject, Obj([options |-> EmptyObject])}
        \cup {Obj([requests |-> <<"arr", steps>>] @@ opt) :
                steps \in UNION {[1..n -> PlainSteps] : n \in 0..MaxSteps},
                opt \in OptionVariants}

InitFair ==
    /\ Routes = StartupRoutes
    /\ atoiOverflow \in AtoiBuilds
    /\ RequestBody \in PlainBodies
    /\ pc = "idle"
    /\ BatchIdle
    /\ SubstIdle
    /\ ExtractIdle
    /\ RouterIdle
    /\ LifeIdle
    /\ JobsIdle

\* HandleBatch runs on one thread and nothing suspends it: as long as every
\* handler returns, the statement it has reached is executed
SpecFair == InitFair /\ [][Next]_vars /\ WF_vars(Next)

-----------------------------------------------------------------------------
(* ResolveStringVariables on its own: strings and previous results *)

\* a batch result as HandleBatch records it, around a response body
ResultOf(Idx, StatusCode, Data) ==
    Obj([index   |-> <<"num", Idx>>,
         method  |-> <<"str", "POST">>,
         path    |-> <<"str", "/create">>,
         status  |-> <<"num", StatusCode>>,
         success |-> <<"bool", IsSuccess(StatusCode)>>,
         data    |-> Data])

SampleData ==
    Obj([a    |-> <<"str", "X">>,
         ab   |-> <<"str", "Y">>,
         c    |-> <<"str", "$0.data.a">>,
         n    |-> <<"num", 5>>,
         big  |-> <<"num", 1234567>>,
         o    |-> Obj([k |-> <<"str", "v">>]),
         list |-> <<"arr", << <<"str", "e">> >> >>,
         t    |-> <<"bool", TRUE>>,
         z    |-> <<"null">>])

SamplePrevious ==
    { <<>>,
      <<ResultOf(0, 200, SampleData)>>,
      <<ResultOf(0, 200, SampleData), ErrorResult(1)>>,
      <<ErrorResult(0), ResultOf(1, 201, Obj([a |-> <<"str", "second">>]))>> }

SampleStrings ==
    { "", "plain text", "$", "$x.a", "cost: $$0.data.n",
      "$0", "$1", "$7", "$0.", "$0.data", "$0.data.o", "$0.data.list", "$0.data.t",
      "$0.data.z", "$0.data.missing", "$0.nope.a", "$0.data.a.b", "$0.data.o.k",
      "$0.data.a", "$0.data.n", "$0.data.big", "$0.status", "$0.index", "$0.error",
      "$0.data.a.", "$0..data..a", "$00.data.a", "$0.DATA.a",
      "$1.data.a", "$1.error", "$2.data.a", "$5.name",
      "$4294967296.data.a", "$4294967297.data.a", "$4294967296", "$2147483648.data.a",
      "$0.data.a $0.data.ab", "$0.data.ab $0.data.a", "$0.data.a $0.data.A",
      "$0.data.c $0.data.a", "$0.data.a $0.data.c", "$0.data.a/$0.data.a",
      "$0.data.a-$1.data.a", "$0.data.n$0.data.o", "$0.data.o $0.data.a",
      "$0 $0.data.a", "$5.name $0.data.a", "id=$0.data.a&n=$0.data.n" }

InitSubst ==
    /\ Routes = StartupRoutes
    /\ atoiOverflow \in AtoiBuilds
    /\ RequestBody = NoObject
    /\ pc = "off"
    /\ BatchIdle
    /\ sValue \in SampleStrings
    /\ sPrevious \in SamplePrevious
    /\ sResult = ""
    /\ sPc = "call"
    /\ ExtractIdle
    /\ RouterIdle
    /\ LifeIdle
    /\ JobsIdle

\* a call of ResolveStringVariables
SubstCall ==
    /\ sPc = "call"
    /\ sResult' = ResolveStringVariables(sValue, sPrevious)
    /\ sPc' = "ret"
    /\ UNCHANGED <<Routes, atoiOverflow, batchVars, sValue, sPrevious, extractVars, routerVars, lifeVars, jobVars>>

NextSubst == SubstCall

SpecSubst == InitSubst /\ [][NextSubst]_vars

-----------------------------------------------------------------------------
(* ExtractJsonPath on its own: roots and paths *)

SampleRoots ==
    { NoObject,
      EmptyObject,
      Obj([a |-> Obj([b |-> Obj([c |-> <<"num", 5>>])])]),
      Obj([a |-> Obj([b |-> <<"num", 1>>])]),
      Obj([a |-> Obj([b |-> Obj([c |-> Obj([d |-> <<"str", "deep">>])]),
                      c |-> <<"str", "sea">>]),
           b |-> <<"bool", FALSE>>,
           s |-> <<"str", "text">>,
           n |-> <<"num", 12>>,
           z |-> <<"null">>,
           o |-> EmptyObject,
           arr |-> <<"arr", << Obj([k |-> <<"num", 1>>]) >> >>]) }

SamplePaths ==
    { "a.b.c", "a.x", "a", "a.b", "a.c", "a.b.c.d", "a.b.c.d.e", "a.b.x", "x", "x.a",
      "s", "s.x", "n", "n.x", "z", "z.x", "b", "b.c", "o", "o.a", "arr", "arr.0", "arr.k",
      "", ".", "..", "a.", ".a", "a..b", "a..c", "a.b..c", "a...b.c.", ".a.b.c" }

InitExtract ==
    /\ Routes = StartupRoutes
    /\ atoiOverflow \in AtoiBuilds
    /\ RequestBody = NoObject
    /\ pc = "off"
    /\ BatchIdle
    /\ SubstIdle
    /\ RouterIdle
    /\ LifeIdle
    /\ JobsIdle
    /\ eRoot \in SampleRoots
    /\ ePath \in SamplePaths
    /\ eResult = NoValue
    /\ ePc = "call"

\* a call of ExtractJsonPath
ExtractCall ==
    /\ ePc = "call"
    /\ eResult' = ExtractJsonPath(eRoot, ePath)
    /\ ePc' = "ret"
    /\ UNCHANGED <<Routes, atoiOverflow, batchVars, substVars, eRoot, ePath, routerVars, lifeVars, jobVars>>

NextExtract == ExtractCall

SpecExtract == InitExtract /\ [][NextExtract]_vars

-----------------------------------------------------------------------------
(* The router on its own: registrations and requests in any order *)

\* most RegisterRoute calls of a run
MaxRegistrations == 2

Registration(Method, Path, Handler) == [Method |-> Method, Path |-> Path, Handler |-> Handler]

RouteRegistrations ==
    { Registration("GET", "/a", Bound("Create")),
      Registration("GET", "/a", Bound("Reject")),
      Registration("GET", "/A", Bound("Accepted")),
      Registration("POST", "/a", Bound("Redirect")),
      Registration("GET", "/a:b", Bound("Health")),
      Registration("DELETE", "/a", Unbound) }

InternalRequests ==
    {[Method |-> "GET", Path |-> p, JsonBody |-> NoObject] : p \in {"/a", "/A", "/a:b", "/nope", "a"}}
        \cup {[Method |-> m, Path |-> "/a", JsonBody |-> NoObject] : m \in {"POST", "PUT", "DELETE"}}

HttpRequest(Verb, RelativePath, QueryParams, Body) ==
    [Verb |-> Verb, RelativePath |-> RelativePath, QueryParams |-> QueryParams, Body |-> Body]

HttpPaths ==
    { "", "/", "a", "/a", "/A", "/a:b", "/nope",
      "/api/v1", "/api/v1/a", "/api/v1a", "/API/V1/a", "/api/v1/api/v1/a", "/api/v1//a" }

HttpRequests ==
    {HttpRequest("GET", p, <<>>, NoBytes) : p \in HttpPaths}
        \cup {HttpRequest(v, "/api/v1/a", <<>>, NoBytes) : v \in {"POST", "PUT", "DELETE", "PATCH"}}
        \cup { HttpRequest("POST", "/a", [verbose |-> "1"],
                            <<"bytes", "{\"name\":\"x\"}", Obj([name |-> <<"str", "x">>])>>),
                HttpRequest("POST", "/a:b", <<>>, <<"bytes", "name=x", NoObject>>) }

\* the router after its constructor: no route, nothing served
InitRouter ==
    /\ Routes = NoRoutes
    /\ atoiOverflow \in AtoiBuilds
    /\ RequestBody = NoObject
    /\ pc = "off"
    /\ BatchIdle
    /\ SubstIdle
    /\ ExtractIdle
    /\ RouterIdle
    /\ LifeIdle
    /\ JobsIdle

\* a call of RegisterRoute
Register ==
    /\ Len(registered) < MaxRegistrations
    /\ \E r \in RouteRegistrations :
          /\ Routes' = RegisterRoute(Routes, r.Method, r.Path, r.Handler)
          /\ registered' = Append(registered, r)
    /\ UNCHANGED <<atoiOverflow, batchVars, substVars, extractVars, lastCall, lifeVars, jobVars>>

\* a DispatchInternal that takes the entry it served out of the table
InternalCall_ConsumesRoute ==
    /\ \E Request \in InternalRequests :
          /\ lastCall' = [kind     |-> "internal",
                          raw      |-> NoHttpRequest,
                          request  |-> Request,
                          invoked  |-> ExecutedHandler(Request),
                          response |-> DispatchInternal(Request),
                          http     |-> NoHttpResponse]
          /\ Routes' = [k \in DOMAIN Routes \ {KeyOf(RouteKey(Request.Method, Request.Path))}
                          |-> Routes[k]]
    /\ UNCHANGED <<atoiOverflow, batchVars, substVars, extractVars, registered, lifeVars, jobVars>>

\* a call of DispatchInternal
InternalCall ==
    /\ \E Request \in InternalRequests :
          lastCall' = [kind     |-> "internal",
                       raw      |-> NoHttpRequest,
                       request  |-> Request,
                       invoked  |-> ExecutedHandler(Request),
                       response |-> DispatchInternal(Request),
                       http     |-> NoHttpResponse]
    /\ UNCHANGED <<Routes, atoiOverflow, batchVars, substVars, extractVars, registered, lifeVars, jobVars>>

\* the HTTP server calls HandleRequest
PublicCall ==
    /\ \E HttpReq \in HttpRequests : lastCall' = HandleRequest(HttpReq)
    /\ UNCHANGED <<Routes, atoiOverflow, batchVars, substVars, extractVars, registered, lifeVars, jobVars>>

NextRouter == Register \/ InternalCall \/ PublicCall

SpecRouter == InitRouter /\ [][NextRouter]_vars

-----------------------------------------------------------------------------
(* The life of the module and of its router: StartupModule, calls made on    *)
(* the router through GetRouter() and on the module, ShutdownModule          *)

\* most calls made between StartupModule and ShutdownModule
MaxCalls == 3

\* the default of Start's Port argument
DefaultPort == 8080

Ports == {DefaultPort, 9090}

\* the fields of an FRESTRouter
RouterState ==
    [bIsRunning |-> bIsRunning, CurrentPort |-> CurrentPort, Routes |-> Routes,
     RegisteredHandlers |-> RegisteredHandlers, HttpRouter |-> HttpRouter,
     RouteHandle |-> RouteHandle]

\* FRESTRouter::FRESTRouter
NewRouter ==
    [bIsRunning |-> FALSE, CurrentPort |-> 0, Routes |-> NoRoutes,
     RegisteredHandlers |-> <<>>, HttpRouter |-> FALSE, RouteHandle |-> FALSE]

\* the number of times Handler occurs in the array
RECURSIVE Occurrences(_, _)
Occurrences(Array, Handler) ==
    IF Array = <<>> THEN 0
    ELSE (IF Head(Array) = Handler THEN 1 ELSE 0) + Occurrences(Tail(Array), Handler)

\* the Shutdown calls of a loop over the array: handler -> number of calls
ShutdownLoop(Array) ==
    [h \in {Array[i] : i \in 1..Len(Array)} |-> Occurrences(Array, h)]

NoShutdowns == ShutdownLoop(<<>>)

\* the calls of two loops, one after the other
BothLoops(a, b) ==
    [h \in DOMAIN a \cup DOMAIN b |->
        (IF h \in DOMAIN a THEN a[h] ELSE 0) + (IF h \in DOMAIN b THEN b[h] ELSE 0)]

\* Start writing CurrentPort before it knows that the server listens
StartResult_PortSetFirst(r, Port, gotRouter, boundRoute) ==
    IF r.bIsRunning THEN [router |-> r, ret |-> FALSE]
    ELSE IF ~gotRouter
    THEN [router |-> [r EXCEPT !.HttpRouter = FALSE, !.CurrentPort = Port], ret |-> FALSE]
    ELSE IF ~boundRoute
    THEN [router |-> [r EXCEPT !.HttpRouter = FALSE, !.RouteHandle = FALSE,
                               !.CurrentPort = Port],
          ret |-> FALSE]
    ELSE [router |-> [r EXCEPT
                        !.HttpRouter = TRUE,
                        !.RouteHandle = TRUE,
                        !.Routes = RegisterRoute(
                                      RegisterRoute(r.Routes, "GET", "/health",
                                                    Bound("BuiltinHealth")),
                                      "GET", "/handlers", Bound("BuiltinHandlers")),
                        !.CurrentPort = Port,
                        !.bIsRunning = TRUE],
          ret |-> TRUE]

\* FRESTRouter::Start; gotRouter: GetHttpRouter gave a valid router,
\* boundRoute: BindRoute gave a valid handle
StartResult(r, Port, gotRouter, boundRoute) ==
    IF r.bIsRunning THEN [router |-> r, ret |-> FALSE]
    ELSE IF ~gotRouter
    THEN [router |-> [r EXCEPT !.HttpRouter = FALSE], ret |-> FALSE]
    ELSE IF ~boundRoute
    THEN [router |-> [r EXCEPT !.HttpRouter = FALSE, !.RouteHandle = FALSE],
          ret |-> FALSE]
    ELSE [router |-> [r EXCEPT
                        !.HttpRouter = TRUE,
                        !.RouteHandle = TRUE,
                        !.Routes = RegisterRoute(
                                      RegisterRoute(r.Routes, "GET", "/health",
                                                    Bound("BuiltinHealth")),
                                      "GET", "/handlers", Bound("BuiltinHandlers")),
                        !.CurrentPort = Port,
                        !.bIsRunning = TRUE],
          ret |-> TRUE]

\* FRESTRouter::Stop and the Shutdown calls it makes
StopResult(r) ==
    IF ~r.bIsRunning THEN [router |-> r, shutdowns |-> NoShutdowns]
    ELSE [router |-> [r EXCEPT !.Routes = NoRoutes,
                               !.RegisteredHandlers = <<>>,
                               !.HttpRouter = FALSE,
                               !.RouteHandle = FALSE,
                               !.bIsRunning = FALSE,
                               !.CurrentPort = 0],
          shutdowns |-> ShutdownLoop(r.RegisteredHandlers)]

\* the pointer of a handler that is not valid
NullHandler == "nullptr"

\* IRESTHandler::RegisterRoutes of the handlers, by GetHandlerName(); for a
\* handler other than Infrastructure and python the first route it registers
\* stands for all its routes
RoutesOf(Handler) ==
    CASE Handler = "Infrastructure" ->
            << <<"GET", "/health", Bound("HandleHealth")>>,
               <<"GET", "/schema", Bound("HandleSchema")>>,
               <<"POST", "/batch", Bound("HandleBatch")>> >>
      [] Handler = "python" ->
            << <<"POST", "/python/execute", Bound("HandleExecute")>>,
               <<"GET", "/python/jobs", Bound("HandleListJobs")>>,
               <<"GET", "/python/job", Bound("HandleGetJob")>>,
               <<"DELETE", "/python/job", Bound("HandleCancelJob")>> >>
      [] Handler = "Assets" -> << <<"GET", "/assets/list", Bound("HandleList")>> >>
      [] Handler = "Level" -> << <<"GET", "/level/info", Bound("HandleInfo")>> >>
      [] Handler = "Actors" -> << <<"GET", "/actors/list", Bound("HandleList")>> >>
      [] Handler = "Editor" -> << <<"GET", "/editor/project", Bound("HandleProject")>> >>
      [] Handler = "Materials" -> << <<"GET", "/materials/param", Bound("HandleGetParam")>> >>
      [] Handler = "Blueprints" ->
            << <<"GET", "/blueprints/selection", Bound("HandleSelection")>> >>
      [] OTHER -> << <<"GET", "/custom", Bound("HandleCustom")>> >>

\* RegisterHandler starting the table afresh with the handler's routes
RegisterHandlerResult_FreshTable(r, Handler) ==
    IF Handler = NullHandler THEN r
    ELSE [r EXCEPT !.RegisteredHandlers = Append(r.RegisteredHandlers, Handler),
                   !.Routes = RegisterAll(NoRoutes, RoutesOf(Handler))]

\* FRESTRouter::RegisterHandler
RegisterHandlerResult(r, Handler) ==
    IF Handler = NullHandler THEN r
    ELSE [r EXCEPT !.RegisteredHandlers = Append(r.RegisteredHandlers, Handler),
                   !.Routes = RegisterAll(r.Routes, RoutesOf(Handler))]

\* FUnrealPythonRESTModule::RegisterHandler: the module's state and its router
ModuleRegisterHandlerResult(m, Handler) ==
    IF Handler = NullHandler THEN m
    ELSE IF ~m.valid THEN m
    ELSE [m EXCEPT !.Handlers = Append(m.Handlers, Handler),
                   !.router = RegisterHandlerResult(m.router, Handler)]

RECURSIVE ModuleRegisterAll(_, _)
ModuleRegisterAll(m, HandlerList) ==
    IF HandlerList = <<>> THEN m
    ELSE ModuleRegisterAll(ModuleRegisterHandlerResult(m, Head(HandlerList)), Tail(HandlerList))

\* the handlers StartupModule registers, in its order
StartupHandlers ==
    <<"Infrastructure", "Assets", "Level", "Actors", "Editor", "python", "Materials",
      "Blueprints">>

\* the handlers other code registers
OtherHandlers == {"Custom", "python", NullHandler}

\* the router's fields take the values of r
SetRouter(r) ==
    /\ bIsRunning' = r.bIsRunning
    /\ CurrentPort' = r.CurrentPort
    /\ Routes' = r.Routes
    /\ RegisteredHandlers' = r.RegisteredHandlers
    /\ HttpRouter' = r.HttpRouter
    /\ RouteHandle' = r.RouteHandle

Op(name, ret, shutdowns, registers) ==
    [op |-> name, ret |-> ret, shutdowns |-> shutdowns, registers |-> registers]

\* the keys of the routes Start registers
BuiltinKeys == {RouteKey("GET", "/health"), RouteKey("GET", "/handlers")}

\* the keys of the routes the handlers of the array register
RouteKeysOf(Array) ==
    UNION { {RouteKey(RoutesOf(Array[i])[j][1], RoutesOf(Array[i])[j][2]) :
                j \in 1..Len(RoutesOf(Array[i]))} :
            i \in {n \in 1..Len(Array) : Array[n] /= NullHandler} }

\* FUnrealPythonRESTModule::StartupModule
StartupModule ==
    /\ modulePc = "unloaded"
    /\ \E gotRouter, boundRoute \in BOOLEAN :
          LET started == StartResult(NewRouter, DefaultPort, gotRouter, boundRoute)
              m == [valid |-> TRUE, Handlers |-> <<>>, router |-> started.router]
              after == IF started.ret THEN ModuleRegisterAll(m, StartupHandlers) ELSE m
          IN  /\ SetRouter(after.router)
              /\ Handlers' = after.Handlers
              /\ lastOp' = Op("StartupModule", started.ret, NoShutdowns,
                              IF started.ret
                              THEN BuiltinKeys \cup RouteKeysOf(StartupHandlers)
                              ELSE {})
    /\ Router' = "valid"
    /\ modulePc' = "loaded"
    /\ UNCHANGED <<atoiOverflow, batchVars, substVars, extractVars, routerVars, nCalls, jobVars>>

\* FUnrealPythonRESTModule::ShutdownModule; the destructor of the router,
\* run by Router.Reset(), calls Stop a second time
ShutdownModule ==
    /\ modulePc = "loaded"
    /\ LET stopped == IF Router = "valid" THEN StopResult(RouterState)
                      ELSE [router |-> RouterState, shutdowns |-> NoShutdowns]
           destroyed == IF Router = "valid" THEN StopResult(stopped.router)
                        ELSE [router |-> RouterState, shutdowns |-> NoShutdowns]
       IN  /\ SetRouter(destroyed.router)
           /\ lastOp' = Op("ShutdownModule", FALSE,
                           BothLoops(ShutdownLoop(Handlers),
                                     BothLoops(stopped.shutdowns, destroyed.shutdowns)),
                           {})
           /\ Jobs' = JobsAfterShutdowns(BothLoops(ShutdownLoop(Handlers),
                                                   stopped.shutdowns))
    /\ Handlers' = <<>>
    /\ Router' = "null"
    /\ modulePc' = "shutdown"
    /\ UNCHANGED <<atoiOverflow, batchVars, substVars, extractVars, routerVars, nCalls,
                   Now, nGuids, nExecuted, lastReply>>

\* FUnrealPythonRESTModule::RegisterHandler, called by other code
ModuleRegisterHandler ==
    /\ modulePc = "loaded"
    /\ nCalls < MaxCalls
    /\ \E Handler \in OtherHandlers :
          LET after == ModuleRegisterHandlerResult(
                          [valid |-> Router = "valid", Handlers |-> Handlers,
                           router |-> RouterState], Handler)
          IN  /\ SetRouter(after.router)
              /\ Handlers' = after.Handlers
              /\ lastOp' = Op("ModuleRegisterHandler", FALSE, NoShutdowns,
                              IF Router = "valid" THEN RouteKeysOf(<<Handler>>) ELSE {})
    /\ nCalls' = nCalls + 1
    /\ UNCHANGED <<atoiOverflow, batchVars, substVars, extractVars, routerVars, jobVars,
                   modulePc, Router>>

\* GetRouter()->Start(Port)
Start ==
    /\ modulePc = "loaded"
    /\ Router = "valid"
    /\ nCalls < MaxCalls
    /\ \E Port \in Ports, gotRouter, boundRoute \in BOOLEAN :
          LET started == StartResult(RouterState, Port, gotRouter, boundRoute)
          IN  /\ SetRouter(started.router)
              /\ lastOp' = Op("Start", started.ret, NoShutdowns,
                              IF started.ret THEN BuiltinKeys ELSE {})
    /\ nCalls' = nCalls + 1
    /\ UNCHANGED <<atoiOverflow, batchVars, substVars, extractVars, routerVars, jobVars,
                   modulePc, Router, Handlers>>

\* GetRouter()->Stop()
Stop ==
    /\ modulePc = "loaded"
    /\ Router = "valid"
    /\ nCalls < MaxCalls
    /\ LET stopped == StopResult(RouterState)
       IN  /\ SetRouter(stopped.router)
           /\ lastOp' = Op("Stop", FALSE, stopped.shutdowns, {})
           /\ Jobs' = JobsAfterShutdowns(stopped.shutdowns)
    /\ nCalls' = nCalls + 1
    /\ UNCHANGED <<atoiOverflow, batchVars, substVars, extractVars, routerVars,
                   Now, nGuids, nExecuted, lastReply, modulePc, Router, Handlers>>

\* GetRouter()->RegisterHandler(Handler)
RegisterHandler ==
    /\ modulePc = "loaded"
    /\ Router = "valid"
    /\ nCalls < MaxCalls
    /\ \E Handler \in OtherHandlers :
          /\ SetRouter(RegisterHandlerResult(RouterState, Handler))
          /\ lastOp' = Op("RegisterHandler", FALSE, NoShutdowns, RouteKeysOf(<<Handler>>))
    /\ nCalls' = nCalls + 1
    /\ UNCHANGED <<atoiOverflow, batchVars, substVars, extractVars, routerVars, jobVars,
                   modulePc, Router, Handlers>>

\* the RegisterRoute calls other code makes
OtherRegistrations ==
    { Registration("GET", "/a", Bound("Create")),
      Registration("GET", "/A", Bound("Accepted")),
      Registration("GET", "/health", Bound("Reject")) }

\* GetRouter()->RegisterRoute(Method, Path, Handler)
RegisterRouteCall ==
    /\ modulePc = "loaded"
    /\ Router = "valid"
    /\ nCalls < MaxCalls
    /\ \E r \in OtherRegistrations :
          /\ Routes' = RegisterRoute(Routes, r.Method, r.Path, r.Handler)
          /\ lastOp' = Op("RegisterRoute", FALSE, NoShutdowns, {RouteKey(r.Method, r.Path)})
    /\ nCalls' = nCalls + 1
    /\ UNCHANGED <<atoiOverflow, batchVars, substVars, extractVars, routerVars, jobVars,
                   modulePc, Router, Handlers, bIsRunning, CurrentPort,
                   RegisteredHandlers, HttpRouter, RouteHandle>>

\* the module before the engine loads it
InitLifecycle ==
    /\ Routes = NoRoutes
    /\ atoiOverflow \in AtoiBuilds
    /\ RequestBody = NoObject
    /\ pc = "off"
    /\ BatchIdle
    /\ SubstIdle
    /\ ExtractIdle
    /\ RouterIdle
    /\ LifeIdle
    /\ JobsIdle

NextLifecycle ==
    \/ StartupModule
    \/ ShutdownModule
    \/ ModuleRegisterHandler
    \/ Start
    \/ Stop
    \/ RegisterHandler
    \/ RegisterRouteCall

SpecLifecycle == InitLifecycle /\ [][NextLifecycle]_vars

-----------------------------------------------------------------------------
(* FPythonHandler: the job table *)

MaxExecutes == 2
MaxHours == 3

MaxJobs == 100
JobExpirationHours == 1

\* FPythonJob::IsFinished
IsFinished(Job) == Job.Status \in {"Completed", "Failed", "Cancelled"}

\* the (n+1)-th id of FGuid::NewGuid().ToString(): no two calls return the same
GenerateJobId(n) == "job-" \o NatToString(n + 1)

\* TMap::Remove of each of the keys
RemoveKeys(jobs, keys) == [k \in DOMAIN jobs \ keys |-> jobs[k]]

\* the first loop of CleanupOldJobs: the finished jobs whose Age is above
\* FTimespan::FromHours(JobExpirationHours)
KeysToRemove(jobs, UtcNow) ==
    {k \in DOMAIN jobs : IsFinished(jobs[k]) /\ UtcNow - jobs[k].EndTime > JobExpirationHours}

\* the keys the search for the oldest finished job can end on: the map is
\* walked in no specified order and a job replaces the candidate when its
\* EndTime is smaller
OldestKeys(jobs) ==
    {k \in DOMAIN jobs :
        /\ IsFinished(jobs[k])
        /\ \A h \in DOMAIN jobs : IsFinished(jobs[h]) => jobs[k].EndTime <= jobs[h].EndTime}

\* the while loop of CleanupOldJobs: the tables it can leave
RECURSIVE RemoveOldest(_)
RemoveOldest(jobs) ==
    IF Cardinality(DOMAIN jobs) <= MaxJobs THEN {jobs}
    ELSE IF OldestKeys(jobs) = {} THEN {jobs}
    ELSE UNION {RemoveOldest(RemoveKeys(jobs, {k})) : k \in OldestKeys(jobs)}

\* CleanupOldJobs removing the expired jobs only
CleanupOldJobs_ExpiredOnly(jobs, UtcNow) == {RemoveKeys(jobs, KeysToRemove(jobs, UtcNow))}

\* FPythonHandler::CleanupOldJobs: the tables it can leave
CleanupOldJobs(jobs, UtcNow) == RemoveOldest(RemoveKeys(jobs, KeysToRemove(jobs, UtcNow)))

Reply(op, JobId, StatusCode, error, job) ==
    [op |-> op, JobId |-> JobId, StatusCode |-> StatusCode, error |-> error, job |-> job]

\* the job record HandleExecute stores
CompletedJob(EndTime) == [Status |-> "Completed", EndTime |-> EndTime]

\* TMap::Add
AddJob(jobs, JobId, Job) == [k \in DOMAIN jobs \cup {JobId} |-> IF k = JobId THEN Job ELSE jobs[k]]

\* HandleCancelJob cancelling whatever job it finds
CancelJobResult_NoFinishedTest(jobs, JobId, UtcNow) ==
    IF JobId \notin DOMAIN jobs
    THEN [Jobs |-> jobs, reply |-> Reply("cancel", JobId, 404, "JOB_NOT_FOUND", NoValue)]
    ELSE [Jobs |-> [jobs EXCEPT ![JobId] = [Status |-> "Cancelled", EndTime |-> UtcNow]],
          reply |-> Reply("cancel", JobId, 200, "", NoValue)]

\* FPythonHandler::HandleCancelJob
CancelJobResult(jobs, JobId, UtcNow) ==
    IF JobId \notin DOMAIN jobs
    THEN [Jobs |-> jobs, reply |-> Reply("cancel", JobId, 404, "JOB_NOT_FOUND", NoValue)]
    ELSE IF IsFinished(jobs[JobId])
    THEN [Jobs |-> jobs, reply |-> Reply("cancel", JobId, 400, "JOB_ALREADY_FINISHED", NoValue)]
    ELSE [Jobs |-> [jobs EXCEPT ![JobId] = [Status |-> "Cancelled", EndTime |-> UtcNow]],
          reply |-> Reply("cancel", JobId, 200, "", NoValue)]

\* FPythonHandler::HandleGetJob
GetJobResult(jobs, JobId) ==
    IF JobId \notin DOMAIN jobs
    THEN Reply("get", JobId, 404, "JOB_NOT_FOUND", NoValue)
    ELSE Reply("get", JobId, 200, "", jobs[JobId])

\* the bodies of the POST /python/execute requests
ExecuteBodies ==
    { NoObject,
      EmptyObject,
      Obj([code |-> <<"str", "">>]),
      Obj([code |-> <<"num", 1>>]),
      Obj([code |-> <<"str", "print(1)">>]) }

\* TryGetStringField(TEXT("code"), Code)
TryGetCode(Body) == HasField(Body, "code") /\ Type(Field(Body, "code")) = "str"

\* POST /python/execute. EndTime is read before the lock is taken, the
\* clock of CleanupOldJobs after: EndTime is any hour up to Now
HandleExecute ==
    \E Body \in ExecuteBodies :
        IF ~IsValid(Body) \/ ~TryGetCode(Body) \/ GetStringField(Body, "code") = ""
        THEN /\ lastReply' = Reply("execute", "", 400, "BAD_REQUEST", NoValue)
             /\ UNCHANGED <<Jobs, nGuids, nExecuted>>
        ELSE /\ nExecuted < MaxExecutes
             /\ \E EndTime \in 0..Now :
                \E JobId \in {GenerateJobId(nGuids)} :
                \E stored \in CleanupOldJobs(AddJob(Jobs, JobId, CompletedJob(EndTime)), Now) :
                    /\ Jobs' = stored
                    /\ lastReply' = Reply("execute", JobId, 200, "", CompletedJob(EndTime))
             /\ nGuids' = nGuids + 1
             /\ nExecuted' = nExecuted + 1

\* GET /python/jobs
HandleListJobs ==
    /\ lastReply' = Reply("list", "", 200, "", [k \in DOMAIN Jobs |-> Jobs[k].Status])
    /\ UNCHANGED <<Jobs, nGuids, nExecuted>>

\* the ?id= parameter of the requests on /python/job: none, empty, the
\* first id handed out, the last one, an id never handed out
JobQueries ==
    {[k \in {} |-> ""]} \cup {[id |-> v] : v \in {"", GenerateJobId(0), GenerateJobId(nGuids - 1),
                                          "no-such-job"}}

\* what the two lambdas on /python/job answer before they call the handler
MissingId(QueryParams) == "id" \notin DOMAIN QueryParams \/ QueryParams["id"] = ""

\* GET /python/job
HandleGetJob ==
    /\ \E QueryParams \in JobQueries :
          lastReply' = IF MissingId(QueryParams)
                       THEN Reply("get", "", 400, "BAD_REQUEST", NoValue)
                       ELSE GetJobResult(Jobs, QueryParams["id"])
    /\ UNCHANGED <<Jobs, nGuids, nExecuted>>

\* DELETE /python/job
HandleCancelJob ==
    /\ \E QueryParams \in JobQueries :
          IF MissingId(QueryParams)
          THEN /\ lastReply' = Reply("cancel", "", 400, "BAD_REQUEST", NoValue)
               /\ Jobs' = Jobs
          ELSE \E cancelled \in {CancelJobResult(Jobs, QueryParams["id"], Now)} :
                   /\ Jobs' = cancelled.Jobs
                   /\ lastReply' = cancelled.reply
    /\ UNCHANGED <<nGuids, nExecuted>>

\* a request served by FPythonHandler
PythonRequest ==
    /\ \/ HandleExecute
       \/ HandleListJobs
       \/ HandleGetJob
       \/ HandleCancelJob
    /\ UNCHANGED <<Routes, atoiOverflow, batchVars, substVars, extractVars, routerVars,
                   lifeVars, Now>>

\* an hour passes
Tick ==
    /\ Now < MaxHours
    /\ Now' = Now + 1
    /\ UNCHANGED <<Routes, atoiOverflow, batchVars, substVars, extractVars, routerVars,
                   lifeVars, Jobs, nGuids, nExecuted, lastReply>>

\* the table after n executes, the first early of them in hour 0 and the
\* others in hour 1
StoredJobs(n, early) ==
    [id \in {GenerateJobId(i) : i \in 0..(n - 1)} |->
        CompletedJob(IF \E i \in 0..(early - 1) : id = GenerateJobId(i) THEN 0 ELSE 1)]

\* the jobs of the hour before in the tables the runs start from: more than
\* the executes of a run, so that no run removes them all
EarlyJobs == MaxExecutes + 1

\* the handler as constructed, one job short of MaxJobs, and full
TablesAtStart ==
    { [Jobs |-> NoJobs, Now |-> 0, nGuids |-> 0],
      [Jobs |-> StoredJobs(MaxJobs - 1, EarlyJobs), Now |-> 1, nGuids |-> MaxJobs - 1],
      [Jobs |-> StoredJobs(MaxJobs, EarlyJobs), Now |-> 1, nGuids |-> MaxJobs] }

InitJobs ==
    /\ Routes = StartupRoutes
    /\ atoiOverflow = "saturate"
    /\ RequestBody = NoObject
    /\ pc = "off"
    /\ BatchIdle
    /\ SubstIdle
    /\ ExtractIdle
    /\ RouterIdle
    /\ LifeIdle
    /\ \E start \in TablesAtStart :
          /\ Jobs = start.Jobs
          /\ Now = start.Now
          /\ nGuids = start.nGuids
    /\ nExecuted = 0
    /\ lastReply = NoReply

NextJobs == PythonRequest \/ Tick

SpecJobs == InitJobs /\ [][NextJobs]_vars

-----------------------------------------------------------------------------
(* What the properties read *)

\* the "requests" array of the batch request
InputSteps == Field(RequestBody, "requests")[2]

\* a field of the body of the response HandleBatch returned
Returned(name) == Field(Response.JsonBody, name)

\* the batch ran and returned its 200 response
BatchReturned == pc = "done" /\ HasRequests(RequestBody)

\* the request leaves stop_on_error at its default or sets it to true
AsksStopOnError ==
    \/ ~HasField(RequestBody, "options")
    \/ ~HasField(Field(RequestBody, "options"), "stop_on_error")
    \/ Field(Field(RequestBody, "options"), "stop_on_error") = <<"bool", TRUE>>

\* the request sets stop_on_error to false
AsksContinue ==
    /\ HasField(RequestBody, "options")
    /\ HasField(Field(RequestBody, "options"), "stop_on_error")
    /\ Field(Field(RequestBody, "options"), "stop_on_error") = <<"bool", FALSE>>

TwoXX(StatusCode) == 200 <= StatusCode /\ StatusCode <= 299

\* step i is not a step object, or was dispatched and answered outside 2xx
StepFailed(i) ==
    \/ Type(InputSteps[i + 1]) /= "obj"
    \/ \E j \in 1..Len(dispatched) :
          dispatched[j].step = i /\ ~TwoXX(dispatched[j].response.StatusCode)

FailedSteps == {i \in 0..(Len(InputSteps) - 1) : StepFailed(i)}

FirstFailed == CHOOSE i \in FailedSteps : \A j \in FailedSteps : i <= j

\* all matches of the reference pattern in a string, left to right
RECURSIVE MatchesFrom(_, _)
MatchesFrom(s, from) ==
    LET m == FindNext(s, from)
    IN  IF ~m.found THEN <<>> ELSE <<m>> \o MatchesFrom(s, m.end + 1)

Tokens(s) == {MatchesFrom(s, 1)[i] : i \in 1..Len(MatchesFrom(s, 1))}

RECURSIVE StripLeadingZeros(_)
StripLeadingZeros(d) ==
    IF Len(d) > 1 /\ Head(d) = "0" THEN StripLeadingZeros(Tail(d)) ELSE d

RECURSIVE DecimalValue(_)
DecimalValue(d) ==
    IF d = "" THEN 0
    ELSE 10 * DecimalValue(SubSeq(d, 1, Len(d) - 1)) + DigitValue(Ch(d, Len(d)))

\* the number the digits of a token write is below n (n far below 10^9)
IndexBelow(digits, n) ==
    LET z == StripLeadingZeros(digits)
    IN  Len(z) <= 9 /\ DecimalValue(z) < n

-----------------------------------------------------------------------------
(* C1 *)

\* C1: a batch run with stop_on_error true, or left at its default because
\* options or stop_on_error is absent, whose first failing step (not a step
\* object, or answered outside 2xx) has index k returns exactly k+1 results,
\* dispatches no step with an index above k, and reports failed = 1,
\* completed = k and success = false.
C1_StopsAtFirstFailure ==
    (BatchReturned /\ AsksStopOnError /\ FailedSteps /= {}) =>
        /\ Type(Returned("results")) = "arr"
        /\ Len(Returned("results")[2]) = FirstFailed + 1
        /\ \A j \in 1..Len(dispatched) : dispatched[j].step <= FirstFailed
        /\ Returned("failed") = <<"num", 1>>
        /\ Returned("completed") = <<"num", FirstFailed>>
        /\ Returned("success") = <<"bool", FALSE>>

\* three steps, no options, the step of index 1 is the first to fail:
\* two results come back
C1_Witness ==
    /\ BatchReturned
    /\ ~HasField(RequestBody, "options")
    /\ Len(InputSteps) = 3
    /\ FailedSteps /= {}
    /\ FirstFailed = 1
    /\ Len(Returned("results")[2]) = 2

-----------------------------------------------------------------------------
(* C2 *)

\* C2: when step 0 was answered with a body whose "id" is a string s and
\* step 1 has the body {"ref": "$0.id"}, the body dispatched for step 1 is
\* {"ref": s}.
C2_ReferenceReadsReturnedBody ==
    \A j \in 1..Len(dispatched) :
        LET d == dispatched[j]
            first == dispatched[1]
            raw == InputSteps[d.step + 1]
        IN  ( /\ d.step = 1
              /\ first.step = 0
              /\ IsValid(first.response.JsonBody)
              /\ HasField(first.response.JsonBody, "id")
              /\ Type(Field(first.response.JsonBody, "id")) = "str"
              /\ HasField(raw, "body")
              /\ Field(raw, "body") = Obj([ref |-> <<"str", "$0.id">>]) )
            => d.request.JsonBody = Obj([ref |-> Field(first.response.JsonBody, "id")])

-----------------------------------------------------------------------------
(* C3 *)

\* C3: a batch run of N steps with stop_on_error false attempts every step:
\* it returns exactly N results, every step object is dispatched, and
\* completed + failed = N.
C3_ContinuesAfterFailure ==
    (BatchReturned /\ AsksContinue) =>
        /\ Type(Returned("results")) = "arr"
        /\ Len(Returned("results")[2]) = Len(InputSteps)
        /\ \A i \in 0..(Len(InputSteps) - 1) :
              Type(InputSteps[i + 1]) = "obj" =>
                  \E j \in 1..Len(dispatched) : dispatched[j].step = i
        /\ Returned("completed")[2] + Returned("failed")[2] = Len(InputSteps)

\* three steps, the first one fails, and three results come back
C3_Witness ==
    /\ BatchReturned
    /\ AsksContinue
    /\ Len(InputSteps) = 3
    /\ StepFailed(0)
    /\ ~StepFailed(2)
    /\ Len(Returned("results")[2]) = 3

-----------------------------------------------------------------------------
(* C4 *)

\* the results are, in order, those of the first Len(Results) input steps
ResultsArePrefix ==
    /\ Len(Results) <= Len(RequestsArray)
    /\ \A k \in 1..Len(Results) :
          /\ HasField(Results[k], "index")
          /\ Field(Results[k], "index") = <<"num", k - 1>>
          /\ Type(RequestsArray[k]) = "obj" =>
                /\ HasField(Results[k], "path")
                /\ Field(Results[k], "path") = <<"str", GetStringField(RequestsArray[k], "path")>>
          /\ Type(RequestsArray[k]) /= "obj" => HasField(Results[k], "error")

\* a step is dispatched when exactly the results of the steps before it are
\* recorded, and the dispatches follow the order of the array
DispatchedInOrder ==
    \A j \in 1..Len(dispatched) :
        /\ dispatched[j].recorded = dispatched[j].step
        /\ \A h \in 1..(j - 1) : dispatched[h].step < dispatched[j].step

\* a step of the run leaves every recorded result in its place
ResultsKept ==
    pc \in {"loop", "build"} =>
        /\ Len(Results') >= Len(Results)
        /\ SubSeq(Results', 1, Len(Results)) = Results

\* C4: at every point of a batch run the results are an in-order prefix of
\* the input steps (the k-th result has index k), a step is dispatched only
\* after the result of the step before it was recorded, and no step of the
\* run, failing or halting included, removes, replaces or reorders a result
\* recorded earlier; the response returns them as they were recorded.
C4_ResultsInOrder ==
    /\ [](pc \in {"loop", "build", "done"} /\ HasRequests(RequestBody)
            => ResultsArePrefix /\ DispatchedInOrder)
    /\ [](BatchReturned => Returned("results") = <<"arr", Results>>)
    /\ [][ResultsKept]_vars

\* a run of three steps that halted at its second step, which is not a step
\* object, with the result of the first step still in place
C4_Witness ==
    /\ pc = "build"
    /\ Len(RequestsArray) = 3
    /\ Len(Results) = 2
    /\ Len(dispatched) = 1
    /\ Type(RequestsArray[2]) /= "obj"
    /\ Field(Results[1], "status") = <<"num", dispatched[1].response.StatusCode>>

-----------------------------------------------------------------------------
(* C5 *)

SuccessfulResults == {k \in 1..Len(Results) : Field(Results[k], "success") = <<"bool", TRUE>>}

\* C5: in every state of a batch run completed + failed is the number of
\* results recorded and completed is the number of results whose success
\* is true; the response returns these counters and its success is true
\* exactly when failed is 0.
C5_CountersMatchResults ==
    (pc \in {"loop", "build", "done"} /\ HasRequests(RequestBody)) =>
        /\ Completed + Failed = Len(Results)
        /\ Completed = Cardinality(SuccessfulResults)
        /\ pc = "done" =>
              /\ Returned("completed") = <<"num", Completed>>
              /\ Returned("failed") = <<"num", Failed>>
              /\ Returned("success") = <<"bool", Returned("failed")[2] = 0>>

\* a returned batch with successes and a failure
C5_Witness ==
    /\ BatchReturned
    /\ Completed = 2
    /\ Failed = 1
    /\ Returned("success") = <<"bool", FALSE>>

-----------------------------------------------------------------------------
(* C6 *)

\* C6: the result recorded for a dispatched step carries the step's index,
\* its method (in upper case) and its path, the status of the response the
\* dispatcher returned, success true exactly for a status from 200 to 299,
\* and as data that response's body (no data when the response has none).
C6_ResultRecordsResponse ==
    (pc \in {"loop", "build", "done"} /\ HasRequests(RequestBody)) =>
        \A j \in 1..Len(dispatched) :
            LET d == dispatched[j]
                raw == InputSteps[d.step + 1]
                r == Results[d.step + 1]
            IN  /\ Len(Results) > d.step
                /\ Field(r, "index") = <<"num", d.step>>
                /\ Field(r, "method") = <<"str", ToUpper(Field(raw, "method")[2])>>
                /\ Field(r, "path") = Field(raw, "path")
                /\ Field(r, "status") = <<"num", d.response.StatusCode>>
                /\ Field(r, "success") = <<"bool", TwoXX(d.response.StatusCode)>>
                /\ IF IsValid(d.response.JsonBody)
                   THEN HasField(r, "data") /\ Field(r, "data") = d.response.JsonBody
                   ELSE ~HasField(r, "data")

\* GET /health answered 200 with its body, recorded as the data of result 0,
\* next to a step answered 300
C6_Witness ==
    /\ BatchReturned
    /\ Len(dispatched) >= 2
    /\ dispatched[1].request.Path = "/health"
    /\ Field(Results[1], "data") = HandleHealth(dispatched[1].request).JsonBody
    /\ Field(Results[1], "success") = <<"bool", TRUE>>
    /\ \E j \in 2..Len(dispatched) : dispatched[j].response.StatusCode = 300

-----------------------------------------------------------------------------
(* C7 *)

\* every reference token of the string names a step index of at least i
AllTokensAtLeast(str, i) == \A m \in Tokens(str) : ~IndexBelow(m.group1, i)

\* the string leaves of raw whose tokens all name an index of at least i
\* are the same in sent
RECURSIVE LeavesKept(_, _, _)
LeavesKept(raw, sent, i) ==
    \A k \in DOMAIN Fields(raw) :
        IF Type(Field(raw, k)) = "str"
        THEN AllTokensAtLeast(Field(raw, k)[2], i) => Field(sent, k) = Field(raw, k)
        ELSE IF Type(Field(raw, k)) = "obj"
        THEN LeavesKept(Field(raw, k), Field(sent, k), i)
        ELSE TRUE

\* C7: in the body dispatched for step i, every string whose tokens all
\* name a step index N >= i is the string of the step's body, unchanged.
C7_OnlyEarlierStepsReferenced ==
    (pc \in {"loop", "build", "done"} /\ HasRequests(RequestBody)) =>
        \A j \in 1..Len(dispatched) :
            LET d == dispatched[j]
                raw == InputSteps[d.step + 1]
            IN  HasField(raw, "body") =>
                    LeavesKept(Field(raw, "body"), d.request.JsonBody, d.step)

-----------------------------------------------------------------------------
(* C8 *)

\* the text the code puts for one token: the string or the %g rendering the
\* path resolves to, the token itself otherwise
TokenText(m, PreviousResults) == ResolveMatch(m, PreviousResults, m.group0)

\* every token of Value replaced where it stands, the text between the
\* tokens and the inserted text left alone
RECURSIVE ReplacedInPlace(_, _, _)
ReplacedInPlace(Value, PreviousResults, from) ==
    LET m == FindNext(Value, from)
    IN  IF ~m.found THEN SubSeq(Value, from, Len(Value))
        ELSE SubSeq(Value, from, m.begin - 1) \o TokenText(m, PreviousResults)
                \o ReplacedInPlace(Value, PreviousResults, m.end + 1)

\* C8: the tokens of one string are replaced independently: the result is
\* the string with each token replaced where it stands, no replacement
\* touching another token's text or text that a replacement inserted.
C8_TokensReplacedIndependently ==
    sPc = "ret" => sResult = ReplacedInPlace(sValue, sPrevious, 1)

-----------------------------------------------------------------------------
(* C9 *)

\* C9: a string whose tokens all name a step index outside the previous
\* results is returned unchanged.
C9_OutOfRangeLeftUnchanged ==
    (sPc = "ret" /\ \A m \in Tokens(sValue) : ~IndexBelow(m.group1, Len(sPrevious)))
        => sResult = sValue

-----------------------------------------------------------------------------
(* C10 *)

\* the token names a previous result and its path resolves there to v
ResolvesTo(m, PreviousResults, types) ==
    /\ IndexBelow(m.group1, Len(PreviousResults))
    /\ m.group3 /= ""
    /\ LET v == ExtractJsonPath(PreviousResults[DecimalValue(StripLeadingZeros(m.group1)) + 1],
                                m.group3)
       IN  IsValid(v) /\ Type(v) \in types

\* the token is bare, or names a previous result in which its path is not
\* found or resolves to an object, an array, a bool or null
NotReplaceable(m, PreviousResults) ==
    \/ m.group3 = ""
    \/ /\ IndexBelow(m.group1, Len(PreviousResults))
       /\ ~ResolvesTo(m, PreviousResults, {"str", "num"})

-----------------------------------------------------------------------------
(* C11 *)

\* sent has the keys of raw at every object level, a string where raw has a
\* string, and the value of raw wherever raw has a number, a bool, null or
\* an array
RECURSIVE SameFrame(_, _)
SameFrame(raw, sent) ==
    /\ Type(sent) = "obj"
    /\ DOMAIN Fields(sent) = DOMAIN Fields(raw)
    /\ \A k \in DOMAIN Fields(raw) :
          IF Type(Field(raw, k)) = "str" THEN Type(Field(sent, k)) = "str"
          ELSE IF Type(Field(raw, k)) = "obj" THEN SameFrame(Field(raw, k), Field(sent, k))
          ELSE Field(sent, k) = Field(raw, k)

\* every body dispatched so far keeps the frame of the body of its step
BodiesKeepFrame ==
    (pc \in {"loop", "build", "done"} /\ HasRequests(RequestBody)) =>
        \A j \in 1..Len(dispatched) :
            LET raw == InputSteps[dispatched[j].step + 1]
            IN  HasField(raw, "body") =>
                    SameFrame(Field(raw, "body"), dispatched[j].request.JsonBody)

\* C11: the body dispatched for a step has the same keys as the step's body
\* at every object level; its numbers, bools, nulls and arrays (the strings
\* inside arrays included) are those of the step's body, only string fields
\* reached through nested objects may differ; and no step of the run
\* changes the request the bodies were read from.
C11_OnlyStringLeavesChange ==
    /\ []BodiesKeepFrame
    /\ [][RequestBody' = RequestBody]_vars

\* a body whose string fields were replaced while the array next to them,
\* which holds a resolvable reference, was dispatched as it came
C11_Witness ==
    /\ pc = "done"
    /\ \E j \in 1..Len(dispatched) :
          LET raw == InputSteps[dispatched[j].step + 1]
              sent == dispatched[j].request.JsonBody
          IN  /\ HasField(raw, "body")
              /\ HasField(Field(raw, "body"), "more")
              /\ Field(sent, "ref") = <<"str", "abc">>
              /\ Field(Field(sent, "more"), "n") /= Field(Field(Field(raw, "body"), "more"), "n")
              /\ Field(Field(sent, "more"), "list")
                    = <<"arr", << <<"str", "$0.data.id">>, <<"num", 1>> >> >>
              /\ Field(Field(sent, "more"), "nil") = <<"null">>

-----------------------------------------------------------------------------
(* C12 *)

\* the pieces of a path between its dots, the empty ones included
RECURSIVE SplitOnDots(_)
SplitOnDots(path) ==
    LET dots == {i \in 1..Len(path) : Ch(path, i) = "."}
    IN  IF dots = {} THEN <<path>>
        ELSE LET d == CHOOSE i \in dots : \A j \in dots : i <= j
             IN  <<SubSeq(path, 1, d - 1)>> \o SplitOnDots(SubSeq(path, d + 1, Len(path)))

\* the non-empty pieces
NonEmptySegments(path) == SelectSeq(SplitOnDots(path), LAMBDA seg : seg /= "")

\* the value the segments lead to from v: each segment names a key of the
\* object reached so far; not-found when a key is missing or the value
\* reached before the last segment is not an object
RECURSIVE Follow(_, _)
Follow(v, segments) ==
    IF segments = <<>> THEN v
    ELSE IF Type(v) /= "obj" \/ Head(segments) \notin DOMAIN Fields(v) THEN NoValue
    ELSE Follow(Field(v, Head(segments)), Tail(segments))

-----------------------------------------------------------------------------
(* C13 *)

\* the result the claim gives a step that is not an object
InvalidStepResult(i) ==
    Obj([index   |-> <<"num", i>>,
         success |-> <<"bool", FALSE>>,
         error   |-> <<"str", "Invalid request object">>])

\* the steps among those visited so far that are not objects
InvalidVisited == {i \in 0..(Len(Results) - 1) : Type(RequestsArray[i + 1]) /= "obj"}

InvalidStepsRecorded ==
    (pc \in {"loop", "build", "done"} /\ HasRequests(RequestBody)) =>
        /\ \A i \in InvalidVisited :
              /\ Results[i + 1] = InvalidStepResult(i)
              /\ \A j \in 1..Len(dispatched) : dispatched[j].step /= i
              /\ AsksStopOnError => Len(Results) = i + 1 /\ pc \in {"build", "done"}
        /\ (pc = "done" /\ AsksContinue) => Len(Results) = Len(RequestsArray)
        /\ pc = "done" => Returned("results") = <<"arr", Results>>

\* the step of the run that visits a step that is not an object
VisitsInvalidStep ==
    /\ pc = "loop"
    /\ Index < Len(RequestsArray)
    /\ Type(RequestsArray[Index + 1]) /= "obj"
    /\ pc' /= pc \/ Index' /= Index

InvalidStepCounted ==
    VisitsInvalidStep =>
        /\ Failed' = Failed + 1
        /\ Completed' = Completed
        /\ dispatched' = dispatched
        /\ Results' = Append(Results, InvalidStepResult(Index))
        /\ IF bStopOnError THEN pc' = "build" ELSE pc' = "loop" /\ Index' = Index + 1

-----------------------------------------------------------------------------
(* What the router properties read *)

\* the (method, path) pairs RegisterRoute was called with
RegisteredPairs == {<<registered[i].Method, registered[i].Path>> : i \in 1..Len(registered)}

\* the handler of the last RegisterRoute call made with the pair
LastRegistered(Method, Path) ==
    LET calls == {i \in 1..Len(registered) :
                    registered[i].Method = Method /\ registered[i].Path = Path}
    IN  registered[CHOOSE i \in calls : \A j \in calls : j <= i].Handler

\* the pair the last served request asks for
AskedPair == <<lastCall.request.Method, lastCall.request.Path>>

\* this step serves a request
Serves == lastCall' /= lastCall

\* this step is a RegisterRoute call
Registers == registered' /= registered

-----------------------------------------------------------------------------
(* C14 *)

\* C14: a request, served by DispatchInternal or by HandleRequest, for a
\* (method, path) no route was registered for executes no handler and gets
\* status 404 with the body {success: false, error: "NOT_FOUND", message:
\* "Route not found: METHOD path"}.
C14_UnregisteredIsNotFound ==
    (lastCall.kind /= "none" /\ AskedPair \notin RegisteredPairs) =>
        /\ lastCall.invoked = ""
        /\ lastCall.response.StatusCode = 404
        /\ lastCall.response.JsonBody =
              Obj([success |-> <<"bool", FALSE>>,
                   error   |-> <<"str", "NOT_FOUND">>,
                   message |-> <<"str", "Route not found: " \o lastCall.request.Method
                                            \o " " \o lastCall.request.Path>>])

-----------------------------------------------------------------------------
(* C15 *)

\* C15: the HTTP response HandleRequest passes to the server carries the
\* status code of the FRESTResponse the route lookup or the handler
\* produced, and that response's body.
C15_StatusReachesCaller ==
    lastCall.kind = "public" =>
        /\ lastCall.http.Code = lastCall.response.StatusCode
        /\ IsValid(lastCall.response.JsonBody) =>
              lastCall.http.Body = <<"json", lastCall.response.JsonBody>>

-----------------------------------------------------------------------------
(* C16 *)

\* C16: whenever HandleRequest serves a request, the FRESTResponse it builds
\* for the parsed request is the one DispatchInternal returns for that
\* request against the same routes, and the other way round.
C16_InternalEqualsPublic ==
    [][Serves =>
          /\ lastCall'.kind = "public" =>
                lastCall'.response = DispatchInternal(lastCall'.request)
          /\ lastCall'.kind = "internal" =>
                lastCall'.response = HandleRequestResponse(lastCall'.request)]_vars

-----------------------------------------------------------------------------
(* C17 *)

\* C17: for every pair RegisterRoute was called with, the lookup of the
\* pair finds the handler of the last call made with that very pair,
\* whatever other registrations and requests came in between, and a
\* request for the pair executes that handler.
C17_LookupFindsLastRegistered ==
    /\ [](\A pair \in RegisteredPairs :
            Find(Routes, RouteKey(pair[1], pair[2])) = LastRegistered(pair[1], pair[2]))
    /\ [][(Serves /\ <<lastCall'.request.Method, lastCall'.request.Path>> \in RegisteredPairs) =>
            LET h == LastRegistered(lastCall'.request.Method, lastCall'.request.Path)
            IN  lastCall'.invoked = IF h.bound THEN h.fn ELSE ""]_vars

-----------------------------------------------------------------------------
(* C18 *)

\* the pairs the model registers or asks for
AllPairs ==
    {<<r.Method, r.Path>> : r \in RouteRegistrations}
        \cup {<<q.Method, q.Path>> : q \in InternalRequests}

\* C18: a RegisterRoute call for one (method, path) pair leaves the lookup
\* of every other pair as it was: it neither replaces the handler of
\* another pair nor makes another pair find the new handler.
C18_PairsDoNotShadow ==
    [][Registers =>
          LET new == registered'[Len(registered')]
          IN  \A pair \in AllPairs \ {<<new.Method, new.Path>>} :
                  Find(Routes', RouteKey(pair[1], pair[2]))
                      = Find(Routes, RouteKey(pair[1], pair[2]))]_vars

-----------------------------------------------------------------------------
(* C19 *)

\* the path with "/" put in front unless it begins with one
WithLeadingSlash(path) == IF path /= "" /\ Ch(path, 1) = "/" THEN path ELSE "/" \o path

\* C19: the path of the request HandleRequest parsed is never empty and
\* begins with "/"; an empty raw path gives "/"; a raw path that begins
\* with "/api/v1" gives what follows these seven characters, with "/" put
\* in front when it does not begin with one (the prefix is taken off once).
C19_PathNormalized ==
    lastCall.kind = "public" =>
        LET raw == lastCall.raw.RelativePath
            path == lastCall.request.Path
        IN  /\ path /= ""
            /\ Ch(path, 1) = "/"
            /\ raw = "" => path = "/"
            /\ (Len(raw) >= 7 /\ SubSeq(raw, 1, 7) = "/api/v1") =>
                  path = WithLeadingSlash(SubSeq(raw, 8, Len(raw)))

\* "/api/v1/api/v1/a" parsed to "/api/v1/a"
C19_Witness ==
    /\ lastCall.kind = "public"
    /\ lastCall.raw.RelativePath = "/api/v1/api/v1/a"
    /\ lastCall.request.Path = "/api/v1/a"

-----------------------------------------------------------------------------
(* C20 *)

\* C20: the path of every request HandleBatch hands to DispatchInternal is
\* not empty and begins with "/".
C20_DispatchedPathsBeginWithSlash ==
    \A j \in 1..Len(dispatched) :
        /\ dispatched[j].request.Path /= ""
        /\ Ch(dispatched[j].request.Path, 1) = "/"

-----------------------------------------------------------------------------
(* C21 *)

\* a request a handler has just answered is answered by the same handler with
\* the same response when it is served again
SameAnswerAgain ==
    \A served \in {lastCall'} :
        served.invoked /= ""
            => /\ served.kind = "internal"
                    => DispatchInternal(served.request)' = served.response
               /\ served.kind = "public"
                    => HandleRequestResponse(served.request)' = served.response

DispatchKeepsRoutes == Serves => (Routes' = Routes /\ SameAnswerAgain)

\* C21: serving a request, through DispatchInternal or through HandleRequest,
\* leaves the route table as it was (no entry added, removed or replaced),
\* and the request it served would get the same response again
C21_DispatchKeepsRoutes == [][DispatchKeepsRoutes]_vars

\* a request was served by a registered handler
C21_Witness ==
    /\ lastCall.kind \in {"internal", "public"}
    /\ lastCall.invoked = "Create"
    /\ lastCall.response.StatusCode = 200

-----------------------------------------------------------------------------
(* C22 *)

\* every entry of the route table is still in the table after the step
EntriesStay == \A k \in DOMAIN Routes : k \in DOMAIN Routes'

\* the step is a Stop of the running router, called directly or by ShutdownModule
StopsRunningRouter == bIsRunning /\ ~bIsRunning'

\* an entry that has another handler after the step was registered anew in it
ChangedByRegistration ==
    \A k \in DOMAIN Routes \cap DOMAIN Routes' :
        Routes'[k] /= Routes[k] => \E key \in lastOp'.registers : KeyOf(key) = k

RouteStaysUntilStop ==
    /\ ~StopsRunningRouter => (EntriesStay /\ ChangedByRegistration)
    /\ StopsRunningRouter => Routes' = NoRoutes

-----------------------------------------------------------------------------
(* C29 *)

\* the step is a call of the named operation
Calls(name) == lastOp'.op = name /\ (nCalls' /= nCalls \/ modulePc' /= modulePc)

\* the step calls Start: directly, or from StartupModule on the new router
CallsStart == Calls("Start") \/ Calls("StartupModule")

\* the step calls Stop: directly, or from ShutdownModule
CallsStop == Calls("Stop") \/ Calls("ShutdownModule")

RunsBetweenStartAndStop ==
    /\ (~bIsRunning /\ bIsRunning') => (CallsStart /\ lastOp'.ret)
    /\ (CallsStart /\ lastOp'.ret) => (~bIsRunning /\ bIsRunning')
    /\ (bIsRunning /\ ~bIsRunning') => CallsStop
    /\ CallsStop => ~bIsRunning'

StartOnRunningRefused ==
    (Calls("Start") /\ bIsRunning)
        => /\ ~lastOp'.ret
           /\ bIsRunning'
           /\ CurrentPort' = CurrentPort
           /\ Routes' = Routes
           /\ RegisteredHandlers' = RegisteredHandlers

StopOnStoppedIsNoOp ==
    (Calls("Stop") /\ ~bIsRunning)
        => /\ RouterState' = RouterState
           /\ lastOp'.shutdowns = NoShutdowns

StoppedHasNoPort ==
    /\ ~bIsRunning => CurrentPort = 0
    /\ ~bIsRunning' => CurrentPort' = 0

RouterLifecycle ==
    /\ RunsBetweenStartAndStop
    /\ StartOnRunningRefused
    /\ StopOnStoppedIsNoOp
    /\ StoppedHasNoPort

\* C29: the router starts to run in the steps in which Start returns true and
\* only in them, and stops to run in the steps that call Stop on it and only
\* in them; Start on a running router returns false and leaves port, routes
\* and registered handlers as they were; Stop on a router that is not running
\* changes no field and shuts no handler down; a router that is not running
\* has port 0
C29_RouterLifecycle == [][RouterLifecycle]_vars

\* the router was stopped, or never started, and then Start succeeded on the
\* other port
C29_Witness ==
    /\ lastOp.op = "Start"
    /\ lastOp.ret
    /\ bIsRunning
    /\ CurrentPort = 9090

-----------------------------------------------------------------------------
(* C30 *)

\* the handlers registered with the router
RegisteredSet == {RegisteredHandlers[i] : i \in 1..Len(RegisteredHandlers)}

\* the number of Shutdown calls the step makes on the handler
ShutdownsOf(h) == IF h \in DOMAIN lastOp'.shutdowns THEN lastOp'.shutdowns[h] ELSE 0

ShutdownOncePerHandler ==
    Calls("ShutdownModule")
        => /\ \A h \in RegisteredSet : ShutdownsOf(h) = 1
           /\ ~bIsRunning'
           /\ Routes' = NoRoutes
           /\ RegisteredHandlers' = <<>>

\* C30: ShutdownModule, with the Stop it calls on the router, calls Shutdown
\* exactly once on each handler registered with the router, and leaves the
\* router stopped, without routes and without registered handlers
C30_ShutdownOncePerHandler == [][ShutdownOncePerHandler]_vars

-----------------------------------------------------------------------------
(* C23 *)

\* a step of the run: from the entry into the loop at step 0, from one step
\* to the next, or out of the loop; the index never goes back and no step of
\* the loop is passed over
RunsForward ==
    /\ (pc = "idle" /\ pc' = "loop") => Index' = 0
    /\ (pc = "loop" /\ pc' = "loop") => Index' = Index + 1
    /\ (pc = "loop" /\ pc' = "build") => Index' = Index
    /\ pc = "loop" => Len(dispatched') <= Len(dispatched) + 1
    /\ pc \in {"build", "done"} => (pc' \in {"build", "done"} /\ dispatched' = dispatched)

\* the steps handed to the router are distinct steps of the batch, in order
DispatchesBounded ==
    /\ Len(dispatched) <= Len(RequestsArray)
    /\ \A i, j \in 1..Len(dispatched) : i < j => dispatched[i].step < dispatched[j].step
    /\ \A i \in 1..Len(dispatched) : dispatched[i].step < Len(RequestsArray)

\* all the steps were attempted
Finished == Index = Len(RequestsArray) /\ Len(Results) = Len(RequestsArray)

\* the run was stopped at a failed step
Halted == bStopOnError /\ Failed = 1 /\ Index < Len(RequestsArray) /\ Len(Results) = Index + 1

EndsFinishedOrHalted ==
    (pc = "done" /\ HasRequests(RequestBody))
        => /\ Finished \/ Halted
           /\ Response /= NoResponse

\* C23: every batch run comes to its end with a response returned; on the way
\* the step index starts at 0 and goes up by one from step to step, each step
\* is handed to the router at most once (at most N dispatches for N steps),
\* and the run ends with all steps attempted or stopped at a failed step
C23_BatchTerminates ==
    /\ [](DispatchesBounded /\ EndsFinishedOrHalted)
    /\ [][RunsForward]_vars
    /\ <>(pc = "done" /\ Response /= NoResponse)

\* a run over three steps that ended having dispatched each of them
C23_Witness ==
    /\ pc = "done"
    /\ Len(RequestsArray) = 3
    /\ Len(dispatched) = 3
    /\ Finished

-----------------------------------------------------------------------------
(* C24 *)

\* the body of the POST /batch request is an object with an array "requests"
CarriesRequestsArray ==
    /\ RequestBody /= NoObject
    /\ "requests" \in DOMAIN RequestBody[2]
    /\ RequestBody[2].requests[1] = "arr"

\* the failed flag of a recorded result
ResultFailed(i) == Field(Results[i], "success") = <<"bool", FALSE>>

OuterStatus ==
    pc = "done"
        => IF CarriesRequestsArray
           THEN /\ Response.StatusCode = 200
                /\ Returned("failed") = <<"num", Cardinality({i \in 1..Len(Results) : ResultFailed(i)})>>
                /\ Returned("success") = <<"bool", \A i \in 1..Len(Results) : ~ResultFailed(i)>>
                /\ Returned("results") = <<"arr", Results>>
           ELSE /\ Response.StatusCode = 400
                /\ Returned("error") = <<"str", "BAD_REQUEST">>
                /\ Returned("success") = <<"bool", FALSE>>

\* C24: HandleBatch returns status 200 whenever the request body has a
\* "requests" array, whatever the number of failed steps, which shows in the
\* fields failed, success and results of the body only; for a body that is
\* absent or has no "requests" array it returns 400 BAD_REQUEST and hands no
\* request to the router
C24_OuterStatus ==
    /\ OuterStatus
    /\ ~CarriesRequestsArray => dispatched = <<>>

\* a batch returned 200 with every one of its three steps failed
C24_Witness ==
    /\ pc = "done"
    /\ CarriesRequestsArray
    /\ Response.StatusCode = 200
    /\ Returned("failed") = <<"num", 3>>

-----------------------------------------------------------------------------
(* C25 *)

\* the methods a request can carry
RESTMethods == {"GET", "POST", "PUT", "DELETE"}

\* the method string of step i of the input, "" when the step has none
NamedMethod(i) == ToUpper(GetStringField(InputSteps[i + 1], "method"))

\* the dispatch reached a handler of the route table
ReachedHandler(d) == ExecutedHandler(d.request) /= ""

\* a step naming one of the four methods is dispatched with that method
NamedMethodDispatched ==
    (pc \in {"loop", "build", "done"} /\ HasRequests(RequestBody)) =>
        \A j \in 1..Len(dispatched) :
            NamedMethod(dispatched[j].step) \in RESTMethods
                => dispatched[j].request.Method = NamedMethod(dispatched[j].step)

\* a dispatch that reached a handler went out under the method its result reports
ReportedMethodDispatched ==
    (pc \in {"loop", "build", "done"} /\ HasRequests(RequestBody)) =>
        \A j \in 1..Len(dispatched) :
            ReachedHandler(dispatched[j])
                => <<"str", dispatched[j].request.Method>>
                       = Field(Results[dispatched[j].step + 1], "method")

\* C25: a step whose method string is GET, POST, PUT or DELETE in any case
\* is dispatched with that method, and no step reaches a handler under a
\* method other than the one its result reports
C25_DispatchedAsNamed == NamedMethodDispatched /\ ReportedMethodDispatched

-----------------------------------------------------------------------------
(* C26 *)

\* the string is one reference token and nothing else
WholeToken(str) ==
    /\ MatchesAt(str, 1)
    /\ MatchAt(str, 1).end = Len(str)
    /\ MatchAt(str, 1).group3 /= ""

\* the value the token names in the previous results, NoValue when it names none
TokenValue(str, PreviousResults) ==
    LET m == MatchAt(str, 1)
        Idx == Atoi(m.group1)
    IN  IF Idx >= 0 /\ Idx < Len(PreviousResults) /\ IsValid(PreviousResults[Idx + 1])
        THEN ExtractJsonPath(PreviousResults[Idx + 1], m.group3)
        ELSE NoValue

\* the call resolved a token that names a number
ResolvedNumber ==
    /\ sPc = "ret"
    /\ WholeToken(sValue)
    /\ Type(TokenValue(sValue, sPrevious)) = "num"

\* C26: a token that resolves to an integer-valued number is replaced by the
\* decimal representation of that integer
C26_IntegerIntact ==
    ResolvedNumber => sResult = NatToString(TokenValue(sValue, sPrevious)[2])

\* an integer of at most six digits is substituted as its decimal representation
ShortIntegerIntact ==
    (ResolvedNumber /\ TokenValue(sValue, sPrevious)[2] < 1000000)
        => sResult = NatToString(TokenValue(sValue, sPrevious)[2])

-----------------------------------------------------------------------------
(* C27 *)

\* a stored job that is finished has the same status and EndTime after the step
FinishedStays ==
    \A id \in DOMAIN Jobs \cap DOMAIN Jobs' :
        IsFinished(Jobs[id]) => Jobs'[id] = Jobs[id]

\* the step serves a DELETE /python/job that names a job id
CancelServed == lastReply'.op = "cancel" /\ lastReply'.JobId /= "" /\ Now' = Now

CancelAnswers ==
    CancelServed =>
        \A answered \in {lastReply'} :
            /\ answered.JobId \notin DOMAIN Jobs
                   => answered.StatusCode = 404 /\ answered.error = "JOB_NOT_FOUND"
            /\ (answered.JobId \in DOMAIN Jobs /\ IsFinished(Jobs[answered.JobId]))
                   => answered.StatusCode = 400 /\ answered.error = "JOB_ALREADY_FINISHED"

\* a job that becomes Cancelled was Pending or Running
OnlyUnfinishedCancelled ==
    \A id \in DOMAIN Jobs \cap DOMAIN Jobs' :
        (Jobs'[id].Status = "Cancelled" /\ Jobs[id].Status /= "Cancelled")
            => Jobs[id].Status \in {"Pending", "Running"}

\* C27: under any order of execute, list, get and cancel requests a job that
\* is Completed, Failed or Cancelled keeps its status and its EndTime;
\* cancelling it answers 400 JOB_ALREADY_FINISHED, cancelling an id that is
\* not stored answers 404 JOB_NOT_FOUND, and a job becomes Cancelled only
\* from Pending or Running
C27_TerminalAbsorbing == [][FinishedStays /\ CancelAnswers /\ OnlyUnfinishedCancelled]_vars

\* after an execute, the cancel of a stored Completed job was refused
C27_Witness ==
    /\ nExecuted > 0
    /\ lastReply.op = "cancel"
    /\ lastReply.StatusCode = 400
    /\ lastReply.error = "JOB_ALREADY_FINISHED"
    /\ lastReply.JobId \in DOMAIN Jobs
    /\ Jobs[lastReply.JobId].Status = "Completed"

-----------------------------------------------------------------------------
(* C28 *)

JobsBounded == Cardinality(DOMAIN Jobs) <= MaxJobs

\* the step serves a POST /python/execute that stored a job
ExecuteServed == nExecuted' = nExecuted + 1

Expired(Job) == Now - Job.EndTime > JobExpirationHours

\* what CleanupOldJobs took out of the table it was given: finished jobs
\* only, every expired one, and one that is not expired only down to MaxJobs
\* jobs and only when no finished job that stays is older
CleanupRemoves ==
    ExecuteServed =>
        \A given \in {AddJob(Jobs, lastReply'.JobId, lastReply'.job)} :
        \A left \in {Jobs'} :
            /\ \A k \in DOMAIN left : k \in DOMAIN given /\ left[k] = given[k]
            /\ \A k \in DOMAIN given \ DOMAIN left :
                  /\ IsFinished(given[k])
                  /\ given[k].Status \notin {"Pending", "Running"}
                  /\ ~Expired(given[k]) =>
                        /\ Cardinality(DOMAIN left) >= MaxJobs
                        /\ \A h \in DOMAIN left :
                              IsFinished(left[h]) => given[k].EndTime <= left[h].EndTime
            /\ \A k \in DOMAIN given :
                  (IsFinished(given[k]) /\ Expired(given[k])) => k \notin DOMAIN left

\* C28: the table never holds more than MaxJobs jobs once an execute request
\* has returned, and the cleanup of an execute removes finished jobs only:
\* the expired ones, then the oldest by EndTime while more than MaxJobs are
\* stored
C28_JobTableBounded == []JobsBounded /\ [][CleanupRemoves]_vars

\* an execute on a full table within the hour: the table is full again and
\* an older job is gone
C28_Witness ==
    /\ lastReply.op = "execute"
    /\ lastReply.StatusCode = 200
    /\ Now = 1
    /\ Cardinality(DOMAIN Jobs) = MaxJobs
    /\ nGuids > MaxJobs
    /\ lastReply.JobId \in DOMAIN Jobs

====
